---- MODULE Spec2Model ----
(***************************************************************************)
(* Orchestrator of neuromosaic (src/neuromosaic/orchestrator/orchestrator.py)*)
(*                                                                         *)
(* The orchestrator runs on one asyncio event loop.  Code between two      *)
(* awaits runs atomically, every await of a collaborator is a point where  *)
(* another task may run.  One action of the model is one such atomic       *)
(* stretch: the return of a collaborator call together with everything the *)
(* awaiting coroutine (and its callers) do up to the next await.           *)
(***************************************************************************)
EXTENDS Integers, Sequences, FiniteSets, TLC

\* ---------------------------------------------------------------- bounds
MaxBatch == 2                       \* largest batch_size given to run_batch
HashLen == 9                        \* length of a commit hash (40 in git)
ExpIds == {"x", "y"}                \* experiment ids given by callers
Times == {1}                        \* values of datetime.utcnow()
Vectors == {1, 2}                   \* vectors the strategy may suggest
MetricValues == {1, 2}                \* metrics a sandbox run may report
Payloads == {"exit 1", "timeout"}   \* what a sandbox run that failed reports
MaxSamples == 2                     \* largest cap num_samples of a RandomSearch
Dimensions == 2                     \* config["dimensions"] of the strategy
MaxHistory == 2                     \* longest history built by direct calls
MaxK == 3                           \* largest num_architectures asked for
MetricNames == {"objective", "accuracy"}
\* the metrics handed to update_with_results by a direct caller
ResultMaps == {[objective |-> 1], [objective |-> 2], [accuracy |-> 1]}

BatchCycles == 1..MaxBatch

\* commit hashes the version control may return
Versions == {[i \in 1..HashLen |-> d] : d \in {1}}

\* orchestrator.py:241  architecture_id = f"arch_{code_version[:8]}"
IdPrefixLen == 8
ArchitectureId(code_version) ==
    <<"arch_">> \o SubSeq(code_version, 1,
                          IF Len(code_version) < IdPrefixLen
                          THEN Len(code_version) ELSE IdPrefixLen)

VARIABLES
    pc,                  \* per cycle: the await run_cycle is suspended at
    caller,              \* per cycle: who awaits this run_cycle
    arch_spec,           \* per cycle: run_cycle local arch_spec
    code_version,        \* per cycle: run_cycle local code_version
    container_id,        \* per cycle: run_cycle local container_id
    final_results,       \* per cycle: run_cycle local final_results
    pending,             \* per cycle: return value or exception held while
                         \*            the finally block runs
    outcome,             \* per cycle: what run_cycle delivered to its caller
    calls,               \* per cycle: collaborator calls made, in order
    saved,               \* results store: rows written by save_run_info
    history,             \* strategy history
    batch_pc,            \* run_batch: position of the one batch call
    batch_size,          \* run_batch argument
    parallel,            \* run_batch argument
    results,             \* run_batch: results / aggregated list
    running_experiments, \* Orchestrator._running_experiments
    driver,              \* per experiment id: state of its _run_experiment task
    created_tasks,       \* per experiment id: asyncio.create_task calls made
    api,                 \* the last synchronous API call and how it ended
    search_strategy,     \* Orchestrator._search_strategy: the strategy object
    instances,           \* the ArchitectureVector objects a caller holds
    codegen              \* the generate_code call of a code generator

vars == <<pc, caller, arch_spec, code_version, container_id, final_results,
          pending, outcome, calls, saved, history, batch_pc, batch_size, parallel,
          results, running_experiments, driver, created_tasks, api,
          search_strategy, instances,
          codegen>>

\* ------------------------------------------------------------ values
NoOutcome == [kind |-> "none"]
Returned(value) == [kind |-> "return", value |-> value]
Raised(error) == [kind |-> "raise", error |-> error]

\* one collaborator call: what was called, with which sandbox handle (<<>> when
\* it takes none), and how it ended
Ok == <<"ok">>
Error(msg) == <<"error", msg>>
Call(op, arg, ret) == [op |-> op, arg |-> arg, ret |-> ret]
Log(t, op, arg, ret) == [calls EXCEPT ![t] = Append(@, Call(op, arg, ret))]

\* the handle create_container returns for the sandbox of cycle t
ContainerOf(t) == <<"container", t>>

\* run_batch: the record that replaces a cycle's exception
FailedRecord(error) == [status |-> "failed", error |-> error]
SlotOf(out) == IF out.kind = "raise" THEN FailedRecord(out.error) ELSE out.value

\* ------------------------------------------------------------ Init
InitCycles(T) ==
    /\ pc = [t \in T |-> "idle"]
    /\ caller = [t \in T |-> "none"]
    /\ arch_spec = [t \in T |-> 0]
    /\ code_version = [t \in T |-> <<>>]
    /\ container_id = [t \in T |-> <<>>]
    /\ final_results = [t \in T |-> NoOutcome]
    /\ pending = [t \in T |-> NoOutcome]
    /\ outcome = [t \in T |-> NoOutcome]
    /\ calls = [t \in T |-> <<>>]

InitRest ==
    /\ saved = <<>>
    /\ history = <<>>
    /\ batch_pc = "idle"
    /\ batch_size = 0
    /\ parallel = TRUE
    /\ results = <<>>
    /\ running_experiments = <<>>
    /\ driver = [e \in ExpIds |-> "none"]
    /\ created_tasks = [e \in ExpIds |-> 0]
    /\ api = [seq |-> 0, op |-> "none", id |-> "", raised |-> FALSE]

\* ------------------------------------------------------- search strategies
\* RandomSearch.__init__: num_samples from the config, current_sample = 0
RandomSearch(n) ==
    [class |-> "RandomSearch", num_samples |-> n, current_sample |-> 0]

\* GaussianProcess.__init__: no training data (X = y = None, written <<>>);
\* calls lists the surrogate's methods in the order in which the latest
\* optimisation called them
GaussianProcess == [X |-> <<>>, y |-> <<>>, calls |-> <<>>]

\* BayesianOptimization.__init__: dimensions from the config, a new surrogate
BayesianOptimization(d) ==
    [class |-> "BayesianOptimization", dimensions |-> d, gp |-> GaussianProcess]

\* a strategy of which only the calls the orchestrator makes are known (the
\* AsyncMock of the tests): it accepts them and answers in any way
AnyStrategy == [class |-> "SearchStrategy"]

\* a value that is not an ArchitectureVector
NotAVector == 0

\* SuggestOutcomes whose RandomSearch compares with > instead of >=
SuggestOutcomes_off_by_one ==
    CASE search_strategy.class = "RandomSearch" ->
           IF search_strategy.current_sample > search_strategy.num_samples
           THEN {Raised("SearchSpaceExhausted")}
           ELSE {Returned(v) : v \in Vectors}
      [] OTHER -> {Returned(v) : v \in Vectors}

\* what `await strategy.suggest_architecture()` can deliver in this state
SuggestOutcomes ==
    CASE search_strategy.class = "RandomSearch" ->
           IF search_strategy.current_sample >= search_strategy.num_samples
           THEN {Raised("SearchSpaceExhausted")}
           ELSE {Returned(v) : v \in Vectors}
      [] search_strategy.class = "BayesianOptimization" ->
           IF Len(history) < search_strategy.dimensions
           THEN {Returned(v) : v \in Vectors}
           ELSE IF \E k \in DOMAIN history :
                      "objective" \notin DOMAIN history[k].results
                THEN {Raised("KeyError")}
                ELSE {Raised("NotImplementedError")}
      [] OTHER ->
           {Returned(v) : v \in Vectors \cup {NotAVector}}
              \cup {Raised("suggest_architecture")}

\* gp.fit(X, y) on the whole history, then the first evaluation of the
\* acquisition function, which calls gp.predict
FitThenPredict ==
    [X |-> [i \in DOMAIN history |-> history[i].architecture],
     y |-> [i \in DOMAIN history |-> history[i].results.objective],
     calls |-> <<"fit", "predict">>]

\* AfterSuggest whose RandomSearch does not count the vector it returned
AfterSuggest_uncounted(out) ==
    CASE /\ search_strategy.class = "BayesianOptimization"
         /\ Len(history) >= search_strategy.dimensions
         /\ \A k \in DOMAIN history : "objective" \in DOMAIN history[k].results ->
           [search_strategy EXCEPT !.gp = FitThenPredict]
      [] OTHER -> search_strategy

\* AfterSuggest whose BayesianOptimization fits the surrogate during the cold
\* start as well
AfterSuggest_fit_cold(out) ==
    CASE search_strategy.class = "RandomSearch" /\ out.kind = "return" ->
           [search_strategy EXCEPT !.current_sample = @ + 1]
      [] /\ search_strategy.class = "BayesianOptimization"
         /\ \A k \in DOMAIN history : "objective" \in DOMAIN history[k].results ->
           [search_strategy EXCEPT !.gp = FitThenPredict]
      [] OTHER -> search_strategy

\* the strategy after that call: RandomSearch counts the vector it returned;
\* BayesianOptimization, past its cold start and with an objective in every
\* entry, has fit the surrogate and asked it for a prediction
AfterSuggest(out) ==
    CASE search_strategy.class = "RandomSearch" /\ out.kind = "return" ->
           [search_strategy EXCEPT !.current_sample = @ + 1]
      [] /\ search_strategy.class = "BayesianOptimization"
         /\ Len(history) >= search_strategy.dimensions
         /\ \A k \in DOMAIN history : "objective" \in DOMAIN history[k].results ->
           [search_strategy EXCEPT !.gp = FitThenPredict]
      [] OTHER -> search_strategy

\* the call update_with_results(*args) on the strategy: the two declared
\* parameters (architecture, results) are bound positionally
UpdateOutcomes(args) ==
    IF search_strategy.class \in {"RandomSearch", "BayesianOptimization"}
    THEN {IF Len(args) = 2 THEN Returned(<<>>) ELSE Raised("TypeError")}
    ELSE {Returned(<<>>), Raised("update_with_results")}

\* the entry that call appends
HistoryEntry(args) ==
    CASE search_strategy.class = "RandomSearch" ->
           [architecture |-> args[1], results |-> args[2],
            sample_num |-> search_strategy.current_sample]
      [] search_strategy.class = "BayesianOptimization" ->
           [architecture |-> args[1], results |-> args[2]]
      [] OTHER -> args[1]

\* sorted(entries, key=lambda x: x["results"][metric], reverse=True): the
\* sort is stable, entries of equal key keep their order
RECURSIVE SortedDescending(_, _)
SortedDescending(entries, metric) ==
    IF entries = <<>> THEN <<>>
    ELSE LET first == CHOOSE i \in DOMAIN entries :
                        /\ \A j \in DOMAIN entries :
                              entries[j].results[metric] <= entries[i].results[metric]
                        /\ \A j \in 1..(i - 1) :
                              entries[j].results[metric] < entries[i].results[metric]
             rest == [j \in 1..(Len(entries) - 1) |->
                        IF j < first THEN entries[j] ELSE entries[j + 1]]
         IN <<entries[first]>> \o SortedDescending(rest, metric)

\* s[:k]
Slice(s, k) ==
    IF k >= 0
    THEN SubSeq(s, 1, IF k < Len(s) THEN k ELSE Len(s))
    ELSE SubSeq(s, 1, IF Len(s) + k > 0 THEN Len(s) + k ELSE 0)

\* get_best_architectures that sorts ascending (reverse=False)
get_best_architectures_ascending(metric, num_architectures) ==
    IF history = <<>> THEN Returned(<<>>)
    ELSE IF \E k \in DOMAIN history : metric \notin DOMAIN history[k].results
    THEN Raised("KeyError")
    ELSE LET descending == SortedDescending(history, metric)
             ascending == [i \in DOMAIN descending |->
                             descending[Len(descending) + 1 - i]]
             best == Slice(ascending, num_architectures)
         IN Returned([i \in DOMAIN best |-> best[i].architecture])

\* get_best_architectures: what the call delivers
get_best_architectures(metric, num_architectures) ==
    IF history = <<>> THEN Returned(<<>>)
    ELSE IF \E k \in DOMAIN history : metric \notin DOMAIN history[k].results
    THEN Raised("KeyError")
    ELSE LET best == Slice(SortedDescending(history, metric), num_architectures)
         IN Returned([i \in DOMAIN best |-> best[i].architecture])

\* ------------------------------------------------ continuations of run_cycle
\* run_cycle stays suspended, now at the await `next`
Continue(t, next) ==
    /\ pc' = [pc EXCEPT ![t] = next]
    /\ UNCHANGED <<outcome, batch_pc, batch_size, parallel, results,
                   running_experiments, driver, created_tasks, api>>

\* DriverFinish that leaves a stopping status alone
DriverFinish_keep_stopping(e, out) ==
    /\ running_experiments' =
         [running_experiments EXCEPT ![e] =
            IF @.status = "stopping"
            THEN @
            ELSE IF out.kind = "return"
            THEN [@ EXCEPT !.status = "completed", !.results = <<out.value>>]
            ELSE [@ EXCEPT !.status = "failed", !.error = <<out.error>>]]
    /\ driver' = [driver EXCEPT ![e] = "finished"]
    /\ UNCHANGED <<created_tasks, api>>

\* DriverFinish that drops the entry of an experiment that has ended
DriverFinish_untrack(e, out) ==
    /\ running_experiments' =
         [x \in DOMAIN running_experiments \ {e} |-> running_experiments[x]]
    /\ driver' = [driver EXCEPT ![e] = "finished"]
    /\ UNCHANGED <<created_tasks, api>>

\* DriverFinish that puts a failed experiment back to scheduled
DriverFinish_requeue(e, out) ==
    /\ running_experiments' =
         [running_experiments EXCEPT ![e] =
            IF out.kind = "return"
            THEN [@ EXCEPT !.status = "completed", !.results = <<out.value>>]
            ELSE [@ EXCEPT !.status = "scheduled", !.error = <<out.error>>]]
    /\ driver' = [driver EXCEPT ![e] = "finished"]
    /\ UNCHANGED <<created_tasks, api>>

\* DriverFinish without the except branch: the exception ends the task and
\* the entry is left as it is
DriverFinish_uncaught(e, out) ==
    /\ running_experiments' =
         [running_experiments EXCEPT ![e] =
            IF out.kind = "return"
            THEN [@ EXCEPT !.status = "completed", !.results = <<out.value>>]
            ELSE @]
    /\ driver' = [driver EXCEPT ![e] = "finished"]
    /\ UNCHANGED <<created_tasks, api>>

\* _run_experiment after `await self.run_cycle()`: lines 400-406
DriverFinish(e, out) ==
    /\ running_experiments' =
         [running_experiments EXCEPT ![e] =
            IF out.kind = "return"
            THEN [@ EXCEPT !.status = "completed", !.results = <<out.value>>]
            ELSE [@ EXCEPT !.status = "failed", !.error = <<out.error>>]]
    /\ driver' = [driver EXCEPT ![e] = "finished"]
    /\ UNCHANGED <<created_tasks, api>>

\* run_batch, sequential branch, after `await task`: lines 351-356; the next
\* coroutine of the list starts in the same stretch, the last one returns
SequentialCollect(i, out) ==
    /\ results' = Append(results, SlotOf(out))
    /\ batch_pc' = IF i < batch_size THEN batch_pc ELSE "returned"
    /\ UNCHANGED <<batch_size, parallel>>

\* the frame of run_cycle is gone once it has returned or raised
DropLocals(t) ==
    /\ arch_spec' = [arch_spec EXCEPT ![t] = 0]
    /\ code_version' = [code_version EXCEPT ![t] = <<>>]
    /\ container_id' = [container_id EXCEPT ![t] = <<>>]
    /\ final_results' = [final_results EXCEPT ![t] = NoOutcome]
    /\ pending' = [pending EXCEPT ![t] = NoOutcome]

\* run_cycle ends with `out` (a return or a raise through lines 256-258) and
\* the coroutine awaiting it goes on
Finish(t, out) ==
    /\ outcome' = [outcome EXCEPT ![t] = out]
    /\ DropLocals(t)
    /\ CASE caller[t] = "gather" ->
              /\ pc' = [pc EXCEPT ![t] = "done"]
              /\ UNCHANGED <<batch_pc, batch_size, parallel, results,
                             running_experiments, driver, created_tasks, api>>
         [] caller[t] = "sequential" ->
              /\ pc' = IF t < batch_size
                       THEN [pc EXCEPT ![t] = "done", ![t + 1] = "suggest"]
                       ELSE [pc EXCEPT ![t] = "done"]
              /\ SequentialCollect(t, out)
              /\ UNCHANGED <<running_experiments, driver, created_tasks, api>>
         [] caller[t] = "_run_experiment" ->
              /\ pc' = [pc EXCEPT ![t] = "done"]
              /\ DriverFinish(t, out)
              /\ UNCHANGED <<batch_pc, batch_size, parallel, results>>

\* RaiseInTry without the finally block: the exception leaves run_cycle at once
RaiseInTry_no_finally(t, error) ==
    /\ pending' = [pending EXCEPT ![t] = NoOutcome]
    /\ outcome' = [outcome EXCEPT ![t] = Raised(error)]
    /\ pc' = [pc EXCEPT ![t] = "done"]
    /\ UNCHANGED <<batch_pc, batch_size, parallel, results,
                   running_experiments, driver, created_tasks, api>>

\* an exception inside the inner try (lines 233-250): the finally block runs
\* first, the exception is held until cleanup_container has been awaited
RaiseInTry(t, error) ==
    /\ pending' = [pending EXCEPT ![t] = Raised(error)]
    /\ Continue(t, "cleanup")

\* submit_results returns: to line 250 of run_cycle, where the return value
\* is held while the finally block runs, or to whoever called it directly
SubmitReturn(t) ==
    IF caller[t] = "submit_results"
    THEN /\ outcome' = [outcome EXCEPT ![t] = Returned(<<>>)]
         /\ pc' = [pc EXCEPT ![t] = "done"]
         /\ UNCHANGED <<pending, batch_pc, batch_size, parallel, results,
                        running_experiments, driver, created_tasks, api>>
    ELSE /\ pending' = [pending EXCEPT ![t] = Returned(final_results[t])]
         /\ Continue(t, "cleanup")

\* an exception leaves submit_results: into the inner try of run_cycle, or to
\* whoever called it directly
SubmitRaise(t, error) ==
    IF caller[t] = "submit_results"
    THEN /\ outcome' = [outcome EXCEPT ![t] = Raised(error)]
         /\ pc' = [pc EXCEPT ![t] = "done"]
         /\ UNCHANGED <<pending, batch_pc, batch_size, parallel, results,
                        running_experiments, driver, created_tasks, api>>
    ELSE RaiseInTry(t, error)

\* ---------------------------------------------------- the steps of run_cycle
\* suggest_architecture without the isinstance check of line 276
suggest_architecture_unchecked(t) ==
    /\ pc[t] = "suggest"
    /\ \E out \in SuggestOutcomes :
         /\ search_strategy' = AfterSuggest(out)
         /\ IF out.kind = "raise"
            THEN /\ calls' = Log(t, "suggest_architecture", <<>>,
                                 Error(out.error))
                 /\ Finish(t, Raised(out.error))
            ELSE /\ calls' = Log(t, "suggest_architecture", <<>>,
                                 IF out.value \in Vectors THEN Ok
                                 ELSE Error("Strategy returned invalid architecture type"))
                 /\ arch_spec' = [arch_spec EXCEPT ![t] = out.value]
                 /\ Continue(t, "generate")
                 /\ UNCHANGED <<code_version, container_id, final_results,
                                pending>>
    /\ UNCHANGED <<caller, saved, history, instances, codegen>>

\* lines 213-215 with get_next_architecture (260-282)
suggest_architecture(t) ==
    /\ pc[t] = "suggest"
    /\ \E out \in SuggestOutcomes :
         /\ search_strategy' = AfterSuggest(out)
         /\ IF out.kind = "raise"
            THEN /\ calls' = Log(t, "suggest_architecture", <<>>,
                                 Error(out.error))
                 /\ Finish(t, Raised(out.error))
            ELSE IF out.value \notin Vectors
            THEN /\ calls' = Log(t, "suggest_architecture", <<>>,
                                 Error("Strategy returned invalid architecture type"))
                 /\ Finish(t, Raised("Strategy returned invalid architecture type"))
            ELSE /\ calls' = Log(t, "suggest_architecture", <<>>, Ok)
                 /\ arch_spec' = [arch_spec EXCEPT ![t] = out.value]
                 /\ Continue(t, "generate")
                 /\ UNCHANGED <<code_version, container_id, final_results,
                                pending>>
    /\ UNCHANGED <<caller, saved, history, instances, codegen>>

\* line 218
generate_code(t) ==
    /\ pc[t] = "generate"
    /\ \/ /\ calls' = Log(t, "generate_code", <<>>, Ok)
          /\ Continue(t, "commit")
          /\ UNCHANGED <<arch_spec, code_version, container_id, final_results,
                         pending>>
       \/ /\ calls' = Log(t, "generate_code", <<>>, Error("generate_code"))
          /\ Finish(t, Raised("generate_code"))
    /\ UNCHANGED <<caller, saved, history, search_strategy, instances, codegen>>

\* line 221
commit_code(t) ==
    /\ pc[t] = "commit"
    /\ \/ \E v \in Versions :
            /\ calls' = Log(t, "commit_code", <<>>, Ok)
            /\ code_version' = [code_version EXCEPT ![t] = v]
            /\ Continue(t, "create")
            /\ UNCHANGED <<arch_spec, container_id, final_results, pending>>
       \/ /\ calls' = Log(t, "commit_code", <<>>, Error("commit_code"))
          /\ Finish(t, Raised("commit_code"))
    /\ UNCHANGED <<caller, saved, history, search_strategy, instances, codegen>>

\* lines 224-231
create_container(t) ==
    /\ pc[t] = "create"
    /\ \/ /\ calls' = Log(t, "create_container", <<>>, ContainerOf(t))
          /\ container_id' = [container_id EXCEPT ![t] = ContainerOf(t)]
          /\ Continue(t, "run")
          /\ UNCHANGED <<arch_spec, code_version, final_results, pending>>
       \/ /\ calls' = Log(t, "create_container", <<>>, Error("create_container"))
          /\ Finish(t, Raised("create_container"))
    /\ UNCHANGED <<caller, saved, history, search_strategy, instances, codegen>>

\* lines 243-248
FinalResults(t, metrics) ==
    [architecture_id |-> ArchitectureId(code_version[t]),
     metrics |-> metrics,
     code_version |-> code_version[t],
     arch_spec |-> arch_spec[t]]

\* submit_results, lines 301-304
MissingField(res) ==
    \E field \in {"architecture_id", "metrics"} : field \notin DOMAIN res

MissingFieldError(res) ==
    IF "architecture_id" \notin DOMAIN res
    THEN "submit_results: missing required field 'architecture_id'"
    ELSE "submit_results: missing required field 'metrics'"

\* line 237: the error carries what the sandbox reported
RunFailed(payload) == "Container run failed: " \o payload

\* run_container that hands the results on without line 301-310's order:
\* the strategy is updated and the results are never persisted
run_container_update_first(t) ==
    /\ pc[t] = "run"
    /\ \/ \E m \in MetricValues :
            /\ calls' = Log(t, "run_container", container_id[t], Ok)
            /\ final_results' = [final_results EXCEPT ![t] = FinalResults(t, m)]
            /\ Continue(t, "update")
            /\ UNCHANGED pending
       \/ \E p \in Payloads :
            /\ calls' = Log(t, "run_container", container_id[t],
                            Error(RunFailed(p)))
            /\ RaiseInTry(t, RunFailed(p))
            /\ UNCHANGED final_results
    /\ UNCHANGED <<caller, arch_spec, code_version, container_id, saved,
                   history, search_strategy, instances, codegen>>

\* lines 234-248 and the entry of submit_results up to its first await (307)
run_container(t) ==
    /\ pc[t] = "run"
    /\ \/ \E m \in MetricValues :
            /\ calls' = Log(t, "run_container", container_id[t], Ok)
            /\ final_results' = [final_results EXCEPT ![t] = FinalResults(t, m)]
            /\ IF MissingField(FinalResults(t, m))
               THEN RaiseInTry(t, MissingFieldError(FinalResults(t, m)))
               ELSE Continue(t, "save") /\ UNCHANGED pending
       \/ \E p \in Payloads :
            /\ calls' = Log(t, "run_container", container_id[t],
                            Error(RunFailed(p)))
            /\ RaiseInTry(t, RunFailed(p))
            /\ UNCHANGED final_results
       \/ /\ calls' = Log(t, "run_container", container_id[t],
                          Error("run_container"))
          /\ RaiseInTry(t, "run_container")
          /\ UNCHANGED final_results
    /\ UNCHANGED <<caller, arch_spec, code_version, container_id, saved,
                   history, search_strategy, instances, codegen>>

\* save_run_info that is handed the results without their metrics
save_run_info_no_metrics(t) ==
    /\ pc[t] = "save"
    /\ \/ /\ calls' = Log(t, "save_run_info", <<>>, Ok)
          /\ saved' = Append(saved, [final_results[t] EXCEPT !.metrics = 0])
          /\ Continue(t, "update")
          /\ UNCHANGED pending
       \/ /\ calls' = Log(t, "save_run_info", <<>>, Error("save_run_info"))
          /\ SubmitRaise(t, "save_run_info")
          /\ UNCHANGED saved
    /\ UNCHANGED <<caller, arch_spec, code_version, container_id, final_results,
                   history, search_strategy, instances, codegen>>

\* submit_results line 307
save_run_info(t) ==
    /\ pc[t] = "save"
    /\ \/ /\ calls' = Log(t, "save_run_info", <<>>, Ok)
          /\ saved' = Append(saved, final_results[t])
          /\ Continue(t, "update")
          /\ UNCHANGED pending
       \/ /\ calls' = Log(t, "save_run_info", <<>>, Error("save_run_info"))
          /\ SubmitRaise(t, "save_run_info")
          /\ UNCHANGED saved
    /\ UNCHANGED <<caller, arch_spec, code_version, container_id, final_results,
                   history, search_strategy, instances, codegen>>

\* update_with_results whose append writes back a list built from a stale,
\* empty copy of the history
update_with_results_stale(t) ==
    /\ pc[t] = "update"
    /\ \E out \in UpdateOutcomes(<<final_results[t]>>) :
         IF out.kind = "return"
         THEN /\ calls' = Log(t, "update_with_results", <<>>, Ok)
              /\ history' = <<HistoryEntry(<<final_results[t]>>)>>
              /\ SubmitReturn(t)
         ELSE /\ calls' = Log(t, "update_with_results", <<>>, Error(out.error))
              /\ SubmitRaise(t, out.error)
              /\ UNCHANGED history
    /\ UNCHANGED <<caller, arch_spec, code_version, container_id, final_results,
                   saved, search_strategy, instances, codegen>>

\* submit_results line 310: the strategy is called with the one argument
\* `results`; then the return to line 250
update_with_results(t) ==
    /\ pc[t] = "update"
    /\ \E out \in UpdateOutcomes(<<final_results[t]>>) :
         IF out.kind = "return"
         THEN /\ calls' = Log(t, "update_with_results", <<>>, Ok)
              /\ history' = Append(history, HistoryEntry(<<final_results[t]>>))
              /\ SubmitReturn(t)
         ELSE /\ calls' = Log(t, "update_with_results", <<>>, Error(out.error))
              /\ SubmitRaise(t, out.error)
              /\ UNCHANGED history
    /\ UNCHANGED <<caller, arch_spec, code_version, container_id, final_results,
                   saved, search_strategy, instances, codegen>>

\* lines 252-258: the finally block.  When cleanup_container returns, the held
\* return value or exception is delivered; when it raises, its exception
\* leaves the finally block in place of whatever was held
cleanup_container(t) ==
    /\ pc[t] = "cleanup"
    /\ \/ /\ calls' = Log(t, "cleanup_container", container_id[t], Ok)
          /\ Finish(t, pending[t])
       \/ /\ calls' = Log(t, "cleanup_container", container_id[t],
                          Error("cleanup_container"))
          /\ Finish(t, Raised("cleanup_container"))
    /\ UNCHANGED <<caller, saved, history, search_strategy, instances, codegen>>

run_cycle(t) ==
    \/ suggest_architecture(t)
    \/ generate_code(t)
    \/ commit_code(t)
    \/ create_container(t)
    \/ run_container(t)
    \/ save_run_info(t)
    \/ update_with_results(t)
    \/ cleanup_container(t)

\* ------------------------------------------------------------- run_batch
\* run_batch whose list holds started tasks instead of coroutines: every
\* cycle runs at once in the sequential branch too
run_batch_eager(n, par) ==
    /\ batch_pc = "idle"
    /\ batch_size' = n
    /\ parallel' = par
    /\ results' = <<>>
    /\ batch_pc' = IF n = 0 THEN "returned"
                   ELSE IF par THEN "gather" ELSE "sequential"
    /\ caller' = [i \in DOMAIN caller |->
                    IF i <= n THEN (IF par THEN "gather" ELSE "sequential")
                    ELSE caller[i]]
    /\ pc' = [i \in DOMAIN pc |-> IF i <= n THEN "suggest" ELSE pc[i]]
    /\ UNCHANGED <<arch_spec, code_version, container_id, final_results,
                   pending, outcome, calls, saved, history, search_strategy, instances, codegen,
                   running_experiments, driver, created_tasks, api>>

\* lines 336-340 and 346-351: the call of run_batch up to its first await.
\* gather wraps every coroutine in a task; the sequential branch awaits the
\* first coroutine.  With batch_size = 0 nothing is awaited and the empty
\* list is returned at once.
run_batch(n, par) ==
    /\ batch_pc = "idle"
    /\ batch_size' = n
    /\ parallel' = par
    /\ results' = <<>>
    /\ batch_pc' = IF n = 0 THEN "returned"
                   ELSE IF par THEN "gather" ELSE "sequential"
    /\ caller' = [i \in DOMAIN caller |->
                    IF i <= n THEN (IF par THEN "gather" ELSE "sequential")
                    ELSE caller[i]]
    /\ pc' = [i \in DOMAIN pc |->
                IF (par /\ i <= n) \/ (~par /\ i = 1 /\ n >= 1)
                THEN "suggest" ELSE pc[i]]
    /\ UNCHANGED <<arch_spec, code_version, container_id, final_results,
                   pending, outcome, calls, saved, history, search_strategy, instances, codegen,
                   running_experiments, driver, created_tasks, api>>

\* gather_return that leaves the failed cycles out of the list
gather_return_drop_failed ==
    /\ batch_pc = "gather"
    /\ \A i \in 1..batch_size : pc[i] = "done"
    /\ results' = LET all == [i \in 1..batch_size |-> outcome[i]]
                      ok(o) == o.kind = "return"
                      kept == SelectSeq(all, ok)
                  IN [k \in 1..Len(kept) |-> kept[k].value]
    /\ batch_pc' = "returned"
    /\ UNCHANGED <<pc, caller, arch_spec, code_version, container_id,
                   final_results, pending, outcome, calls, saved, history, search_strategy, instances, codegen,
                   batch_size, parallel,
                   running_experiments, driver, created_tasks, api>>

\* gather_return that waits with return_when=FIRST_EXCEPTION: the first
\* exception ends the wait while the other tasks are still running
gather_return_first_exception ==
    /\ batch_pc = "gather"
    /\ \/ \A i \in 1..batch_size : pc[i] = "done"
       \/ \E i \in 1..batch_size : outcome[i].kind = "raise"
    /\ results' = [i \in 1..batch_size |->
                     IF outcome[i].kind = "none" THEN FailedRecord("cancelled")
                     ELSE SlotOf(outcome[i])]
    /\ batch_pc' = "returned"
    /\ UNCHANGED <<pc, caller, arch_spec, code_version, container_id,
                   final_results, pending, outcome, calls, saved, history, search_strategy, instances, codegen,
                   batch_size, parallel,
                   running_experiments, driver, created_tasks, api>>

\* lines 340-345: gather(return_exceptions=True) completes when every task
\* has finished; exceptions are replaced in place and the list is returned
gather_return ==
    /\ batch_pc = "gather"
    /\ \A i \in 1..batch_size : pc[i] = "done"
    /\ results' = [i \in 1..batch_size |-> SlotOf(outcome[i])]
    /\ batch_pc' = "returned"
    /\ UNCHANGED <<pc, caller, arch_spec, code_version, container_id,
                   final_results, pending, outcome, calls, saved, history, search_strategy, instances, codegen,
                   batch_size, parallel,
                   running_experiments, driver, created_tasks, api>>

\* ------------------------------------------------- named experiments
ApiCall(op, id, raised) ==
    [seq |-> 1 - api.seq, op |-> op, id |-> id, raised |-> raised]

\* lines 373-377
NewEntry == [status |-> "scheduled", start_time |-> 0, logs |-> <<>>,
             results |-> <<>>, error |-> <<>>]

\* schedule_experiment without the check of line 368
schedule_experiment_no_check(e) ==
    /\ api' = ApiCall("schedule_experiment", e, FALSE)
    /\ running_experiments' =
         [x \in DOMAIN running_experiments \cup {e} |->
            IF x = e THEN NewEntry ELSE running_experiments[x]]
    /\ driver' = [driver EXCEPT ![e] = "pending"]
    /\ created_tasks' = [created_tasks EXCEPT ![e] = @ + 1]
    /\ UNCHANGED <<pc, caller, arch_spec, code_version, container_id,
                   final_results, pending, outcome, calls, saved, history, search_strategy, instances, codegen,
                   batch_pc, batch_size, parallel, results>>

\* lines 368-379
schedule_experiment(e) ==
    /\ api' = ApiCall("schedule_experiment", e,
                      e \in DOMAIN running_experiments)
    /\ IF e \in DOMAIN running_experiments
       THEN UNCHANGED <<running_experiments, driver, created_tasks>>
       ELSE /\ running_experiments' = (e :> NewEntry) @@ running_experiments
            /\ driver' = [driver EXCEPT ![e] = "pending"]
            /\ created_tasks' = [created_tasks EXCEPT ![e] = @ + 1]
    /\ UNCHANGED <<pc, caller, arch_spec, code_version, container_id,
                   final_results, pending, outcome, calls, saved, history, search_strategy, instances, codegen,
                   batch_pc, batch_size, parallel, results>>

\* run_experiment_start without the assignment of start_time
run_experiment_start_no_time(e) ==
    /\ driver[e] = "pending"
    /\ running_experiments' =
          [running_experiments EXCEPT ![e] = [@ EXCEPT !.status = "running"]]
    /\ driver' = [driver EXCEPT ![e] = "running"]
    /\ pc' = [pc EXCEPT ![e] = "suggest"]
    /\ caller' = [caller EXCEPT ![e] = "_run_experiment"]
    /\ UNCHANGED <<arch_spec, code_version, container_id, final_results,
                   pending, outcome, calls, saved, history, search_strategy, instances, codegen,
                   batch_pc, batch_size, parallel, results,
                   created_tasks, api>>

\* lines 392-398: the task created by schedule_experiment starts and runs up
\* to the first await of run_cycle
run_experiment_start(e) ==
    /\ driver[e] = "pending"
    /\ \E now \in Times :
         running_experiments' =
            [running_experiments EXCEPT ![e] =
               [@ EXCEPT !.status = "running", !.start_time = now]]
    /\ driver' = [driver EXCEPT ![e] = "running"]
    /\ pc' = [pc EXCEPT ![e] = "suggest"]
    /\ caller' = [caller EXCEPT ![e] = "_run_experiment"]
    /\ UNCHANGED <<arch_spec, code_version, container_id, final_results,
                   pending, outcome, calls, saved, history, search_strategy, instances, codegen,
                   batch_pc, batch_size, parallel, results,
                   created_tasks, api>>

\* stop_experiment that replaces the entry instead of setting its status
stop_experiment_reset(e) ==
    /\ api' = ApiCall("stop_experiment", e,
                      e \notin DOMAIN running_experiments)
    /\ IF e \notin DOMAIN running_experiments
       THEN UNCHANGED running_experiments
       ELSE running_experiments' =
              [running_experiments EXCEPT
                 ![e] = [NewEntry EXCEPT !.status = "stopping"]]
    /\ UNCHANGED <<pc, caller, arch_spec, code_version, container_id,
                   final_results, pending, outcome, calls, saved, history, search_strategy, instances, codegen,
                   batch_pc, batch_size, parallel, results,
                   driver, created_tasks>>

\* lines 418-421
stop_experiment(e) ==
    /\ api' = ApiCall("stop_experiment", e,
                      e \notin DOMAIN running_experiments)
    /\ IF e \notin DOMAIN running_experiments
       THEN UNCHANGED running_experiments
       ELSE running_experiments' =
              [running_experiments EXCEPT ![e].status = "stopping"]
    /\ UNCHANGED <<pc, caller, arch_spec, code_version, container_id,
                   final_results, pending, outcome, calls, saved, history, search_strategy, instances, codegen,
                   batch_pc, batch_size, parallel, results,
                   driver, created_tasks>>

\* lines 437-439: a read; the value it returns
get_experiment_status(e) ==
    IF e \notin DOMAIN running_experiments
    THEN Raised("not found")
    ELSE Returned(running_experiments[e])

\* lines 441-448: a read; the ids it returns, list(self._running_experiments
\* .keys()), as a set
list_running_experiments == DOMAIN running_experiments

\* ------------------------------------------- submit_results called directly
\* the results maps a caller may hand to submit_results
SubmittedResults ==
    UNION {{[architecture_id |-> ArchitectureId(v), metrics |-> m,
             code_version |-> v],
            [architecture_id |-> ArchitectureId(v), metrics |-> m],
            [architecture_id |-> ArchitectureId(v)],
            [metrics |-> m],
            [code_version |-> v]} : v \in Versions, m \in MetricValues}

\* submit_results without the loop of lines 301-304
submit_results_unchecked(t, res) ==
    /\ pc[t] = "idle"
    /\ caller' = [caller EXCEPT ![t] = "submit_results"]
    /\ final_results' = [final_results EXCEPT ![t] = res]
    /\ pc' = [pc EXCEPT ![t] = "save"]
    /\ UNCHANGED <<outcome, arch_spec, code_version, container_id, pending,
                   calls, saved, history, batch_pc, batch_size, parallel,
                   results, running_experiments, driver, created_tasks, api,
                   search_strategy, instances, codegen>>

\* lines 301-304: the call of submit_results(res) up to its first await; the
\* argument is kept in final_results
submit_results(t, res) ==
    /\ pc[t] = "idle"
    /\ caller' = [caller EXCEPT ![t] = "submit_results"]
    /\ final_results' = [final_results EXCEPT ![t] = res]
    /\ IF MissingField(res)
       THEN /\ pc' = [pc EXCEPT ![t] = "done"]
            /\ outcome' = [outcome EXCEPT ![t] = Raised(MissingFieldError(res))]
       ELSE /\ pc' = [pc EXCEPT ![t] = "save"]
            /\ UNCHANGED outcome
    /\ UNCHANGED <<arch_spec, code_version, container_id, pending,
                   calls, saved, history, batch_pc, batch_size, parallel,
                   results, running_experiments, driver, created_tasks, api,
                   search_strategy, instances, codegen>>

\* ------------------------------------------ calls made on the strategy itself
\* the record of such a call: its arguments, and the list it returned or the
\* error it raised
StrategyCall(op, args, value, error) ==
    [seq |-> 1 - api.seq, op |-> op, id |-> "", raised |-> error # "",
     args |-> args, value |-> value, error |-> error]

ErrorOf(out) == IF out.kind = "raise" THEN out.error ELSE ""

\* await strategy.suggest_architecture()
strategy_suggest_architecture ==
    /\ \E out \in SuggestOutcomes :
         /\ api' = StrategyCall("suggest_architecture", <<>>,
                                IF out.kind = "return" THEN <<out.value>>
                                ELSE <<>>,
                                ErrorOf(out))
         /\ search_strategy' = AfterSuggest(out)
    /\ UNCHANGED <<pc, caller, arch_spec, code_version, container_id,
                   final_results, pending, outcome, calls, saved, history,
                   batch_pc, batch_size, parallel, results,
                   running_experiments, driver, created_tasks, instances, codegen>>

\* await strategy.update_with_results(architecture, res)
strategy_update_with_results(architecture, res) ==
    /\ Len(history) < MaxHistory
    /\ \E out \in UpdateOutcomes(<<architecture, res>>) :
         /\ api' = StrategyCall("update_with_results",
                                [architecture |-> architecture, results |-> res],
                                <<>>, ErrorOf(out))
         /\ history' = IF out.kind = "return"
                       THEN Append(history, HistoryEntry(<<architecture, res>>))
                       ELSE history
    /\ UNCHANGED <<pc, caller, arch_spec, code_version, container_id,
                   final_results, pending, outcome, calls, saved,
                   batch_pc, batch_size, parallel, results,
                   running_experiments, driver, created_tasks,
                   search_strategy, instances, codegen>>

\* get_best_architectures that sorts the history itself (self.history.sort)
strategy_get_best_architectures_in_place(metric, num_architectures) ==
    LET out == get_best_architectures(metric, num_architectures)
    IN /\ api' = StrategyCall("get_best_architectures",
                              [metric |-> metric,
                               num_architectures |-> num_architectures],
                              IF out.kind = "return" THEN out.value ELSE <<>>,
                              ErrorOf(out))
       /\ history' = IF out.kind = "return"
                     THEN SortedDescending(history, metric) ELSE history
       /\ UNCHANGED <<pc, caller, arch_spec, code_version, container_id,
                      final_results, pending, outcome, calls, saved,
                      batch_pc, batch_size, parallel, results,
                      running_experiments, driver, created_tasks,
                      search_strategy, instances, codegen>>

\* await strategy.get_best_architectures(metric, num_architectures)
strategy_get_best_architectures(metric, num_architectures) ==
    LET out == get_best_architectures(metric, num_architectures)
    IN /\ api' = StrategyCall("get_best_architectures",
                              [metric |-> metric,
                               num_architectures |-> num_architectures],
                              IF out.kind = "return" THEN out.value ELSE <<>>,
                              ErrorOf(out))
       /\ UNCHANGED <<pc, caller, arch_spec, code_version, container_id,
                      final_results, pending, outcome, calls, saved, history,
                      batch_pc, batch_size, parallel, results,
                      running_experiments, driver, created_tasks,
                      search_strategy, instances, codegen>>

\* ---------------------------------------------------- architecture vectors
\* A float x of the source is written as the integer x * Unit, so Unit is the
\* float 1.0 and the grid step is 1 / Unit; the values the specifications
\* below draw are those the grid holds exactly (the rounding error of IEEE
\* doubles, of the order of 1e-16, is below the grid).
Unit == 20

\* the threshold 0.9 of decode (line 236)
Threshold == 18

\* one item of the bounds dict, param -> (min_val, max_val); int says that
\* both bounds are Python ints (isinstance(min_val, int) and
\* isinstance(max_val, int))
Bound(param, min_val, max_val, int) ==
    [param |-> param, min_val |-> min_val, max_val |-> max_val, int |-> int]

\* one item of the categorical_dims dict, param -> choices
Categorical(param, choices) == [param |-> param, choices |-> choices]

Range(s) == {s[i] : i \in DOMAIN s}

RECURSIVE SumLen(_)
SumLen(cats) ==
    IF cats = <<>> THEN 0 ELSE Len(Head(cats).choices) + SumLen(Tail(cats))

\* ArchitectureVector.__init__: the size the definitions need (lines 134-138)
RequiredDims(bounds, categorical_dims) == Len(bounds) + SumLen(categorical_dims)

\* np.zeros(n)
Zeros(n) == [i \in 1..n |-> 0]

\* ArchitectureVector.__init__ (lines 130-147): the new object, or the error
ArchitectureVector(dimensions, bounds, categorical_dims) ==
    IF RequiredDims(bounds, categorical_dims) > dimensions
    THEN Raised("Vector dimensions too small")
    ELSE Returned([dimensions |-> dimensions, bounds |-> bounds,
                   categorical_dims |-> categorical_dims,
                   vector |-> Zeros(dimensions)])

\* current_idx (0-based) at which the block of the k-th categorical starts
BlockStart(inst, k) ==
    Len(inst.bounds) + SumLen(SubSeq(inst.categorical_dims, 1, k - 1))

\* the slots (1-based) of the block of the k-th categorical
BlockSlots(inst, k) ==
    (BlockStart(inst, k) + 1)..
       (BlockStart(inst, k) + Len(inst.categorical_dims[k].choices))

\* np.argmax over the slots `slots` of vec: the first slot holding the maximum
ArgMax(vec, slots) ==
    CHOOSE j \in slots :
       /\ \A i \in slots : vec[i] <= vec[j]
       /\ \A i \in slots : i < j => vec[i] < vec[j]

\* choices.index(value): the first position of value, 1-based
IndexOf(choices, value) ==
    CHOOSE i \in DOMAIN choices :
       choices[i] = value /\ \A j \in 1..(i - 1) : choices[j] # value

\* the result of encode: how the call ended and the vector it left behind
Encoded(out, vec) == [out |-> out, vector |-> vec]

\* encode, the loop over categorical_dims (lines 182-197), from the k-th on
RECURSIVE EncodeCategorical(_, _, _, _)
EncodeCategorical(inst, given, vec, k) ==
    IF k > Len(inst.categorical_dims) THEN Encoded(Returned(<<>>), vec)
    ELSE LET param == inst.categorical_dims[k].param
             choices == inst.categorical_dims[k].choices
             value == IF param \in DOMAIN given THEN given[param]
                      ELSE choices[1]
         IN IF value \notin Range(choices)
            THEN Encoded(Raised("Invalid " \o param \o " value"), vec)
            ELSE LET hot == BlockStart(inst, k) + IndexOf(choices, value)
                 IN EncodeCategorical(inst, given,
                       [j \in DOMAIN vec |->
                          IF j \in BlockSlots(inst, k)
                          THEN (IF j = hot THEN Unit ELSE 0)
                          ELSE vec[j]],
                       k + 1)

\* EncodeBounds whose check is strict: a value on a bound is refused
RECURSIVE EncodeBounds_strict(_, _, _, _)
EncodeBounds_strict(inst, given, vec, i) ==
    IF i > Len(inst.bounds) THEN EncodeCategorical(inst, given, vec, 1)
    ELSE LET b == inst.bounds[i]
             value == IF b.param \in DOMAIN given THEN given[b.param]
                      ELSE (b.min_val + b.max_val) \div 2
         IN IF b.param \in DOMAIN given
               /\ ~(b.min_val < value /\ value < b.max_val)
            THEN Encoded(Raised(b.param \o " value is outside bounds"), vec)
            ELSE IF b.max_val = b.min_val
            THEN Encoded(Raised("ZeroDivisionError"), vec)
            ELSE EncodeBounds_strict(inst, given,
                    [vec EXCEPT ![i] = ((value - b.min_val) * Unit)
                                          \div (b.max_val - b.min_val)],
                    i + 1)

\* encode, the loop over bounds (lines 168-179), from the i-th on, and then
\* the loop over categorical_dims
RECURSIVE EncodeBounds(_, _, _, _)
EncodeBounds(inst, given, vec, i) ==
    IF i > Len(inst.bounds) THEN EncodeCategorical(inst, given, vec, 1)
    ELSE LET b == inst.bounds[i]
             value == IF b.param \in DOMAIN given THEN given[b.param]
                      ELSE (b.min_val + b.max_val) \div 2
         IN IF b.param \in DOMAIN given
               /\ ~(b.min_val <= value /\ value <= b.max_val)
            THEN Encoded(Raised(b.param \o " value is outside bounds"), vec)
            ELSE IF b.max_val = b.min_val
            THEN Encoded(Raised("ZeroDivisionError"), vec)
            ELSE EncodeBounds(inst, given,
                    [vec EXCEPT ![i] = ((value - b.min_val) * Unit)
                                          \div (b.max_val - b.min_val)],
                    i + 1)

\* encode(arch_spec), lines 163-197; `given` is arch_spec, a key it lacks is
\* what arch_spec.get(param) answers with None
encode(inst, given) == EncodeBounds(inst, given, Zeros(inst.dimensions), 1)

\* round(value): to the nearest integer, a tie to the even one
RoundHalfEven(value) ==
    LET q == value \div Unit
        r == value % Unit
    IN Unit * (IF 2 * r < Unit THEN q
               ELSE IF 2 * r > Unit THEN q + 1
               ELSE IF q % 2 = 0 THEN q ELSE q + 1)

\* Denormalize without the offset min_val
Denormalize_no_offset(b, x) ==
    LET value == (x * (b.max_val - b.min_val)) \div Unit
    IN IF b.int THEN RoundHalfEven(value) ELSE value

\* decode, a continuous slot (lines 218-224)
Denormalize(b, x) ==
    LET value == (x * (b.max_val - b.min_val)) \div Unit + b.min_val
    IN IF b.int THEN RoundHalfEven(value) ELSE value

\* DecodeChoice that trusts argmax whatever the activations are
DecodeChoice_argmax(inst, k) ==
    LET slots == BlockSlots(inst, k)
    IN inst.categorical_dims[k].choices[
          ArgMax(inst.vector, slots) - BlockStart(inst, k)]

\* decode, a categorical block (lines 227-242): the choice at argmax, or the
\* first choice unless exactly one slot of the block is above 0.9
DecodeChoice(inst, k) ==
    LET slots == BlockSlots(inst, k)
        choice_idx ==
           IF Cardinality({j \in slots : inst.vector[j] > Threshold}) # 1
           THEN 1
           ELSE ArgMax(inst.vector, slots) - BlockStart(inst, k)
    IN inst.categorical_dims[k].choices[choice_idx]

\* the parameters a decoded specification has
ParamsOf(inst) ==
    {inst.bounds[i].param : i \in DOMAIN inst.bounds}
       \cup {inst.categorical_dims[k].param : k \in DOMAIN inst.categorical_dims}

\* decode(), lines 212-244: the arch_spec dict
decode(inst) ==
    [param \in ParamsOf(inst) |->
       IF \E i \in DOMAIN inst.bounds : inst.bounds[i].param = param
       THEN LET i == CHOOSE i \in DOMAIN inst.bounds :
                        inst.bounds[i].param = param
            IN Denormalize(inst.bounds[i], inst.vector[i])
       ELSE LET k == CHOOSE k \in DOMAIN inst.categorical_dims :
                        inst.categorical_dims[k].param = param
            IN DecodeChoice(inst, k)]

\* np.clip(x, lo, hi)
Clip(x, lo, hi) == IF x < lo THEN lo ELSE IF x > hi THEN hi ELSE x

\* all arrays of n booleans
BoolArrays(n) == [1..n -> BOOLEAN]

\* MutationMasks that compares with <=
MutationMasks_inclusive(n, mutation_rate) ==
    IF mutation_rate >= Unit THEN {[j \in 1..n |-> TRUE]}
    ELSE BoolArrays(n)

\* np.random.random(n) < mutation_rate (line 273): the draws lie in [0, 1)
MutationMasks(n, mutation_rate) ==
    IF mutation_rate <= 0 THEN {[j \in 1..n |-> FALSE]}
    ELSE IF mutation_rate >= Unit THEN {[j \in 1..n |-> TRUE]}
    ELSE BoolArrays(n)

\* the index of the categorical whose block holds slot j, 0 if none does
BlockOf(inst, j) ==
    IF \E k \in DOMAIN inst.categorical_dims : j \in BlockSlots(inst, k)
    THEN CHOOSE k \in DOMAIN inst.categorical_dims : j \in BlockSlots(inst, k)
    ELSE 0

\* mutate, lines 264-297: mutation_mask as drawn at line 273, noise[i] the
\* draw of np.random.normal for the i-th continuous slot, new_choice[k] the
\* draw of np.random.randint for the k-th block (1-based)
mutate(inst, mutation_mask, noise, new_choice) ==
    [inst EXCEPT !.vector =
       [j \in DOMAIN inst.vector |->
          IF j <= Len(inst.bounds)
          THEN IF mutation_mask[j]
               THEN Clip(inst.vector[j] + noise[j], 0, Unit)
               ELSE inst.vector[j]
          ELSE LET k == BlockOf(inst, j)
               IN IF k # 0 /\ \E i \in BlockSlots(inst, k) : mutation_mask[i]
                  THEN (IF j = BlockStart(inst, k) + new_choice[k]
                        THEN Unit ELSE 0)
                  ELSE inst.vector[j]]]

\* sorted(crossover_points)
RECURSIVE SortedAscending(_)
SortedAscending(points) ==
    IF points = <<>> THEN <<>>
    ELSE LET least == CHOOSE i \in DOMAIN points :
                        /\ \A j \in DOMAIN points : points[i] <= points[j]
                        /\ \A j \in 1..(i - 1) : points[j] > points[i]
             rest == [j \in 1..(Len(points) - 1) |->
                        IF j < least THEN points[j] ELSE points[j + 1]]
         IN <<points[least]>> \o SortedAscending(rest)

\* lines 349-357: whether the loop over the sorted points swaps slot j
\* (1-based): the i-th pass copies the slots from the previous point (0 at
\* first) up to its own point, and does so on every second pass
Swapped(points, j) ==
    LET sorted == SortedAscending(points)
        start(i) == IF i = 1 THEN 0 ELSE sorted[i - 1]
    IN \E i \in DOMAIN sorted :
          /\ i % 2 = 0
          /\ start(i) <= j - 1
          /\ j - 1 < sorted[i]

\* the two ways to call crossover: crossover_points=None, with the mask drawn
\* at line 344, or a list of points
Uniform(mask) == [kind |-> "uniform", mask |-> mask]
MultiPoint(points) == [kind |-> "points", points |-> points]

\* lines 342-357: the children before the repair
Recombined(self, other, how) ==
    LET from_other(j) == IF how.kind = "uniform" THEN ~how.mask[j]
                         ELSE Swapped(how.points, j)
    IN <<[j \in DOMAIN self.vector |->
            IF from_other(j) THEN other.vector[j] ELSE self.vector[j]],
         [j \in DOMAIN self.vector |->
            IF from_other(j) THEN self.vector[j] ELSE other.vector[j]]>>

\* FixCategorical that leaves the blocks as the recombination left them
FixCategorical_skip(inst, vec) == vec

\* lines 360-370: every block becomes the one-hot of its argmax
FixCategorical(inst, vec) ==
    [j \in DOMAIN vec |->
       LET k == BlockOf(inst, j)
       IN IF k = 0 THEN vec[j]
          ELSE IF j = ArgMax(vec, BlockSlots(inst, k)) THEN Unit ELSE 0]

\* crossover, lines 320-372: the two children, built with the definitions of
\* the receiver, or the error
crossover(self, other, how) ==
    IF self.dimensions # other.dimensions
    THEN Raised("Cannot crossover vectors with different dimensions.")
    ELSE LET mixed == Recombined(self, other, how)
         IN Returned(<<[self EXCEPT !.vector = FixCategorical(self, mixed[1])],
                       [self EXCEPT !.vector = FixCategorical(self, mixed[2])]>>)

RECURSIVE Sum(_, _)
Sum(f, S) ==
    IF S = {} THEN 0
    ELSE LET x == CHOOSE x \in S : TRUE IN f[x] + Sum(f, S \ {x})

\* distance, lines 392-437: the error, or the two sums the loops build, the
\* squared differences of the continuous slots (in units of 1 / Unit^2) and
\* the number of block slots that differ; the float returned is a fixed
\* function of the two (line 426-437)
distance(self, other) ==
    IF self.dimensions # other.dimensions
    THEN Raised("Cannot calculate distance between vectors with different dimensions.")
    ELSE LET diff == [j \in DOMAIN self.vector |->
                        self.vector[j] - other.vector[j]]
             squares == [j \in DOMAIN self.vector |-> diff[j] * diff[j]]
             differs == [j \in DOMAIN self.vector |->
                           IF diff[j] # 0 THEN 1 ELSE 0]
             continuous == 1..Len(self.bounds)
             categorical ==
                {j \in DOMAIN self.vector : BlockOf(self, j) # 0}
         IN Returned(<<Sum(squares, continuous), Sum(differs, categorical)>>)

\* ---------------------------------------- calls on architecture vectors
\* the definitions the vectors are built from: num_layers and ffn_ratio with
\* the bounds of ArchSpace (lines 53-56), choice lists of two choices each;
\* ArchSpaceFloat and ArchSpaceChoices have the length of ArchSpaceInt but
\* other bounds or another choice list, ArchSpaceWide has a longer vector
ArchSpaceInt ==
    [dimensions |-> 3,
     bounds |-> <<Bound("num_layers", 2 * Unit, 12 * Unit, TRUE)>>,
     categorical_dims |-> <<Categorical("norm_type", <<"layer_norm", "rmsnorm">>)>>]
ArchSpaceFloat ==
    [dimensions |-> 3,
     bounds |-> <<Bound("ffn_ratio", 2 * Unit, 8 * Unit, FALSE)>>,
     categorical_dims |-> <<Categorical("norm_type", <<"layer_norm", "rmsnorm">>)>>]
ArchSpaceChoices ==
    [dimensions |-> 3,
     bounds |-> <<Bound("num_layers", 2 * Unit, 12 * Unit, TRUE)>>,
     categorical_dims |-> <<Categorical("ffn_type", <<"vanilla", "gated">>)>>]
ArchSpaceWide ==
    [dimensions |-> 4,
     bounds |-> <<Bound("num_layers", 2 * Unit, 12 * Unit, TRUE)>>,
     categorical_dims |-> <<Categorical("norm_type", <<"layer_norm", "rmsnorm">>)>>]

\* ArchitectureVector(dimensions, bounds, categorical_dims) for a definition
New(space) ==
    ArchitectureVector(space.dimensions, space.bounds,
                       space.categorical_dims).value

\* the slot values a caller assigns directly: 0.0, 0.9 and 1.0
SlotValues == {0, Threshold, Unit}

\* the values an arch_spec may give a continuous parameter: one step below
\* min_val, min_val, one and three steps above it (a half-integer for
\* num_layers), max_val, one step above max_val; a step is the difference of
\* two values whose slots are one grid step apart
Step(b) == (b.max_val - b.min_val) \div Unit
ContinuousValues(b) ==
    {b.min_val - Step(b), b.min_val, b.min_val + Step(b),
     b.min_val + 3 * Step(b), b.max_val, b.max_val + Step(b)}

\* the values it may give a categorical parameter
CategoricalValues(c) == Range(c.choices) \cup {"invalid_type"}

\* the dicts over the parameters opts lists: any subset of them as keys
RECURSIVE SpecsOver(_)
SpecsOver(opts) ==
    IF opts = <<>> THEN {<<>>}
    ELSE LET rest == SpecsOver(Tail(opts))
             h == Head(opts)
         IN rest \cup {(h.param :> v) @@ g : v \in h.values, g \in rest}

\* the arch_spec dicts handed to encode
ArchSpecs(inst) ==
    SpecsOver([i \in DOMAIN inst.bounds |->
                 [param |-> inst.bounds[i].param,
                  values |-> ContinuousValues(inst.bounds[i])]]
              \o [k \in DOMAIN inst.categorical_dims |->
                    [param |-> inst.categorical_dims[k].param,
                     values |-> CategoricalValues(inst.categorical_dims[k])]])

\* mutation rates 0.0, 0.5 and 1.0
MutationRates == {0, Unit \div 2, Unit}

\* draws of np.random.normal(0, 0.1): -0.25 and 0.25
Noises == {-(Unit \div 4), Unit \div 4}

\* draws of np.random.randint(n_choices), one per block (1-based)
NewChoices(inst) ==
    {f \in [DOMAIN inst.categorical_dims -> 1..inst.dimensions] :
        \A k \in DOMAIN f : f[k] <= Len(inst.categorical_dims[k].choices)}

\* the lists of crossover points a caller passes: up to MaxPoints indices
MaxPoints == 2
PointLists(n) == UNION {[1..m -> 0..n] : m \in 0..MaxPoints}

\* the record of a call on the vector `self`
VectorCall(op, args, out) ==
    [seq |-> 0, op |-> op, id |-> "self", raised |-> out.kind = "raise",
     args |-> args,
     value |-> IF out.kind = "return" THEN out.value ELSE <<>>,
     error |-> ErrorOf(out)]

VectorFrame ==
    UNCHANGED <<pc, caller, arch_spec, code_version, container_id,
                final_results, pending, outcome, calls, saved, history,
                batch_pc, batch_size, parallel, results,
                running_experiments, driver, created_tasks, search_strategy,
                codegen>>

\* A behaviour is one use of a vector in the shape of the tests: the vector is
\* constructed, populated once by encode or by assignment (or left as
\* constructed), and one operation that reads it is called; what a call
\* delivers depends on the two vectors only
Fresh == api.op = "none"
Populated == api.op \in {"none", "encode", "assign"}

\* self.encode(given)
vector_encode(given) ==
    LET enc == encode(instances.self, given)
    IN /\ Fresh
       /\ api' = VectorCall("encode", [arch_spec |-> given], enc.out)
       /\ instances' = [instances EXCEPT !.self.vector = enc.vector]
       /\ VectorFrame

\* self.vector = vec (test_arch_space.py lines 147-148)
vector_assign(vec) ==
    /\ Fresh
    /\ api' = VectorCall("assign", [vector |-> vec], Returned(<<>>))
    /\ instances' = [instances EXCEPT !.self.vector = vec]
    /\ VectorFrame

\* self.decode()
vector_decode ==
    /\ Populated
    /\ api' = VectorCall("decode", [a |-> 0], Returned(<<decode(instances.self)>>))
    /\ UNCHANGED instances
    /\ VectorFrame

\* the array a vector object refers to is named by the object that owns it;
\* ndarray.copy() (lines 270, 339, 340) returns an array that no operand
\* refers to
ArrayCopy_alias(owner) == owner
ArrayCopy(owner) == "copy of " \o owner

\* np.where (lines 345-346) returns a new array as well
WhereResult == "where"

\* the arrays the children of crossover refer to at the repair
ChildArray(how, parent) ==
    IF how.kind = "uniform" THEN WhereResult ELSE ArrayCopy(parent)

\* the operands after `vec` has been written into `array`
Store(insts, array, vec) ==
    IF array \in DOMAIN insts
    THEN [insts EXCEPT ![array].vector = vec]
    ELSE insts

\* self.mutate(mutation_rate)
vector_mutate(mutation_rate) ==
    /\ Populated
    /\ \E mutation_mask \in MutationMasks(instances.self.dimensions, mutation_rate),
          noise \in [1..Len(instances.self.bounds) -> Noises],
          new_choice \in NewChoices(instances.self) :
          LET mutated == mutate(instances.self, mutation_mask, noise,
                                new_choice)
          IN /\ api' = VectorCall("mutate", [mutation_rate |-> mutation_rate],
                                  Returned(<<mutated>>))
             /\ instances' = Store(instances, ArrayCopy("self"), mutated.vector)
    /\ VectorFrame

\* self.crossover(other) and self.crossover(other, crossover_points)
vector_crossover(how) ==
    /\ Populated
    /\ LET out == crossover(instances.self, instances.other, how)
       IN /\ api' = VectorCall("crossover", how, out)
          /\ instances' =
                IF out.kind = "raise" THEN instances
                ELSE Store(Store(instances, ChildArray(how, "self"),
                                 out.value[1].vector),
                           ChildArray(how, "other"), out.value[2].vector)
    /\ VectorFrame

\* self.distance(other)
vector_distance ==
    /\ Populated
    /\ api' = VectorCall("distance", [a |-> 0],
                         distance(instances.self, instances.other))
    /\ UNCHANGED instances
    /\ VectorFrame

\* ------------------------------------------------------------ specifications
InitBatch ==
    instances = <<>> /\ codegen = <<>> /\ InitCycles(BatchCycles) /\ InitRest
       /\ search_strategy = AnyStrategy
InitExp ==
    instances = <<>> /\ codegen = <<>> /\ InitCycles(ExpIds) /\ InitRest
       /\ search_strategy = AnyStrategy

\* the strategies _setup_components builds (lines 127-130)
RandomSearches == {RandomSearch(n) : n \in 0..MaxSamples}
Strategies == RandomSearches \cup {BayesianOptimization(Dimensions)}

InitSearch ==
    instances = <<>> /\ codegen = <<>> /\ InitCycles(BatchCycles) /\ InitRest
       /\ search_strategy \in RandomSearches
InitStrategy ==
    instances = <<>> /\ codegen = <<>> /\ InitCycles(BatchCycles) /\ InitRest
       /\ search_strategy \in Strategies

\* ------------------------------------------------------------ code generation
\* OpenAICodeGenerator.generate_code (openai_provider.py, lines 88-120);
\* LlamaCodeGenerator.generate_code (llama_provider.py, lines 198-253) runs the
\* same loop

\* the largest max_retries a caller passes (the default is 3)
MaxRetries == 3

\* generated code, by what validate_code looks at
Code(parses, imports, structure) ==
    [parses |-> parses, imports |-> imports, structure |-> structure]
CompleteCode == Code(TRUE, TRUE, TRUE)
GeneratedCodes ==
    {CompleteCode, Code(FALSE, TRUE, TRUE), Code(TRUE, FALSE, TRUE),
     Code(TRUE, TRUE, FALSE)}

\* validate_code (lines 122-149): ast.parse succeeds, both imports are there,
\* and so are a class, __init__ and forward
validate_code(code) == code.parses /\ code.imports /\ code.structure

\* what one pass of the try block meets: the completion request or the parsing
\* of its response raises, or there is code to validate
ApiErrors == {"APIError"}
Responses ==
    {[error |-> e, code |-> CompleteCode] : e \in ApiErrors}
       \cup {[error |-> "", code |-> c] : c \in GeneratedCodes}

ExhaustedError == "Failed to generate valid code after max retries"

CodeGenCall(max_retries) ==
    [pc |-> "attempt", max_retries |-> max_retries, attempt |-> 0,
     attempts |-> <<>>, out |-> NoOutcome]
CodeGenDone(cg, out) == [cg EXCEPT !.pc = "done", !.out = out]

\* range(max_retries) has a next value, or the loop falls through to line 120
NextAttempt(cg) ==
    IF cg.attempt + 1 < cg.max_retries
    THEN [cg EXCEPT !.attempt = @ + 1]
    ELSE CodeGenDone(cg, Raised(ExhaustedError))

\* the end of one pass of the loop body (lines 95-118)
AfterAttempt_return_last(cg, response) ==
    IF response.error # ""
    THEN IF cg.attempt = cg.max_retries - 1
         THEN CodeGenDone(cg, Raised(response.error))
         ELSE NextAttempt(cg)
    ELSE IF validate_code(response.code) \/ cg.attempt = cg.max_retries - 1
         THEN CodeGenDone(cg, Returned(response.code))
         ELSE NextAttempt(cg)
AfterAttempt(cg, response) ==
    IF response.error # ""
    THEN IF cg.attempt = cg.max_retries - 1
         THEN CodeGenDone(cg, Raised(response.error))
         ELSE NextAttempt(cg)
    ELSE IF validate_code(response.code)
         THEN CodeGenDone(cg, Returned(response.code))
         ELSE NextAttempt(cg)

CodeGenFrame ==
    UNCHANGED <<pc, caller, arch_spec, code_version, container_id,
                final_results, pending, outcome, calls, saved, history,
                batch_pc, batch_size, parallel, results,
                running_experiments, driver, created_tasks, api,
                search_strategy, instances>>

\* await generator.generate_code(arch_spec, max_retries), up to the first await
provider_generate_code(max_retries) ==
    /\ codegen.pc = "idle"
    /\ codegen' = IF max_retries > 0
                  THEN CodeGenCall(max_retries)
                  ELSE CodeGenDone(CodeGenCall(max_retries),
                                   Raised(ExhaustedError))
    /\ CodeGenFrame

\* one generation attempt: the request, the parsing and the validation
provider_attempt(response) ==
    /\ codegen.pc = "attempt"
    /\ codegen' = AfterAttempt([codegen EXCEPT !.attempts = Append(@, response)],
                               response)
    /\ CodeGenFrame

\* the slots of the other vector: all 0.0 (no block has a non-zero element)
\* or all 1.0 (every block has several)
OtherVectors(n) == {[j \in 1..n |-> 0], [j \in 1..n |-> Unit]}

\* a code generator nobody has called yet
InitCodeGen ==
    /\ InitCycles(BatchCycles) /\ InitRest
    /\ instances = <<>>
    /\ search_strategy = AnyStrategy
    /\ codegen = [CodeGenCall(0) EXCEPT !.pc = "idle"]

\* two vectors: self as constructed, other with slots a caller has assigned
InitVector ==
    /\ InitCycles(BatchCycles) /\ InitRest
    /\ codegen = <<>>
    /\ search_strategy = AnyStrategy
    /\ \E s \in {ArchSpaceInt, ArchSpaceFloat},
          o \in {ArchSpaceInt, ArchSpaceFloat, ArchSpaceChoices, ArchSpaceWide} :
          \E vec \in OtherVectors(o.dimensions) :
             instances = [self |-> New(s),
                          other |-> [New(o) EXCEPT !.vector = vec]]

NextBatch ==
    \/ \E n \in 0..MaxBatch, par \in BOOLEAN : run_batch(n, par)
    \/ \E i \in BatchCycles : run_cycle(i)
    \/ gather_return

NextExp ==
    \/ \E e \in ExpIds : schedule_experiment(e)
    \/ \E e \in ExpIds : run_experiment_start(e)
    \/ \E e \in ExpIds : run_cycle(e)
    \/ \E e \in ExpIds : stop_experiment(e)

\* submit_results called directly, by up to MaxBatch concurrent tasks
NextSubmit ==
    \/ \E t \in BatchCycles, res \in SubmittedResults : submit_results(t, res)
    \/ \E t \in BatchCycles : save_run_info(t)
    \/ \E t \in BatchCycles : update_with_results(t)

\* a batch run by an orchestrator that holds one of the real strategies, and
\* suggest_architecture called on that strategy from outside as well
NextSearch ==
    \/ \E n \in 0..MaxBatch, par \in BOOLEAN : run_batch(n, par)
    \/ \E i \in BatchCycles : run_cycle(i)
    \/ gather_return
    \/ strategy_suggest_architecture

\* the strategy used on its own
NextStrategy ==
    \/ strategy_suggest_architecture
    \/ \E architecture \in Vectors, res \in ResultMaps :
          strategy_update_with_results(architecture, res)
    \/ \E metric \in MetricNames, k \in 0..MaxK :
          strategy_get_best_architectures(metric, k)

\* the operations of one vector, with a second one as the other parent
NextVector ==
    \/ \E given \in ArchSpecs(instances.self) : vector_encode(given)
    \/ \E vec \in [1..instances.self.dimensions -> SlotValues] :
          vector_assign(vec)
    \/ vector_decode
    \/ \E mutation_rate \in MutationRates : vector_mutate(mutation_rate)
    \/ \E mask \in BoolArrays(instances.self.dimensions) :
          vector_crossover(Uniform(mask))
    \/ \E points \in PointLists(instances.self.dimensions) :
          vector_crossover(MultiPoint(points))
    \/ vector_distance

\* one generate_code call of a provider
NextCodeGen ==
    \/ \E max_retries \in 0..MaxRetries : provider_generate_code(max_retries)
    \/ \E response \in Responses : provider_attempt(response)

Spec == InitBatch /\ [][NextBatch]_vars
SubmitSpec == InitBatch /\ [][NextSubmit]_vars
SearchSpec == InitSearch /\ [][NextSearch]_vars
StrategySpec == InitStrategy /\ [][NextStrategy]_vars
VectorSpec == InitVector /\ [][NextVector]_vars
CodeGenSpec == InitCodeGen /\ [][NextCodeGen]_vars
ExpSpec == InitExp /\ [][NextExp]_vars

\* the event loop runs every task that is ready: a created driver task starts,
\* and a cycle whose collaborator call has returned goes on
ExpFairSpec ==
    /\ ExpSpec
    /\ \A e \in ExpIds : WF_vars(run_experiment_start(e))
    /\ \A e \in ExpIds : WF_vars(run_cycle(e))

\* ================================================================ properties
Cycles == DOMAIN pc
Delivered(t) == outcome[t].kind \in {"return", "raise"}
CallsOf(t, op) == {k \in DOMAIN calls[t] : calls[t][k].op = op}
FailedCalls(t) == {k \in DOMAIN calls[t] : calls[t][k].ret[1] = "error"}
\* the handles create_container returned to cycle t
HandlesOf(t) == {calls[t][k].ret : k \in {j \in CallsOf(t, "create_container") :
                                           calls[t][j].ret[1] = "container"}}
CleanupsOf(t, h) == {k \in CallsOf(t, "cleanup_container") : calls[t][k].arg = h}
CycleOps == <<"suggest_architecture", "generate_code", "commit_code",
              "create_container", "run_container", "save_run_info",
              "update_with_results", "cleanup_container">>

\* C1: run_batch never raises; in both modes and for every pattern of cycle
\* successes and failures the list it returns has exactly batch_size entries,
\* entry i being the result cycle i returned or the failure record
\* {status: failed, error: message} of the exception cycle i raised.
C1_BatchReturnsOneEntryPerCycle ==
    /\ batch_pc \in {"idle", "gather", "sequential", "returned"}
    /\ batch_pc = "returned" =>
         /\ Len(results) = batch_size
         /\ \A i \in 1..batch_size :
              \/ /\ outcome[i].kind = "return"
                 /\ results[i] = outcome[i].value
              \/ /\ outcome[i].kind = "raise"
                 /\ results[i] = [status |-> "failed", error |-> outcome[i].error]

C1_Witness ==
    /\ batch_pc = "returned"
    /\ batch_size = MaxBatch
    /\ \E i, j \in 1..batch_size :
         /\ outcome[i].kind = "return"
         /\ outcome[j].kind = "raise"
         /\ results[j].status = "failed"

\* C2: in parallel mode a cycle that reaches its outcome (in particular one
\* that fails) changes nothing of any sibling cycle, a cycle whose own calls
\* all succeed runs all eight steps and returns its result, and run_batch
\* returns only when every launched cycle has delivered a result or an error.
C2_SiblingUntouched ==
    \A i, j \in BatchCycles :
       (i # j /\ caller[j] = "gather" /\ outcome'[j] # outcome[j]) =>
          /\ pc'[i] = pc[i]
          /\ calls'[i] = calls[i]
          /\ pending'[i] = pending[i]
          /\ outcome'[i] = outcome[i]
          /\ container_id'[i] = container_id[i]
          /\ final_results'[i] = final_results[i]

C2_AllFinishedAtReturn ==
    (parallel /\ batch_pc = "returned") =>
       \A i \in 1..batch_size :
          /\ pc[i] = "done"
          /\ Delivered(i)
          /\ FailedCalls(i) = {} =>
                /\ outcome[i].kind = "return"
                /\ [k \in DOMAIN calls[i] |-> calls[i][k].op] = CycleOps

C2_ParallelCyclesIndependent ==
    [] C2_AllFinishedAtReturn /\ [][C2_SiblingUntouched]_vars

C2_Witness ==
    /\ batch_pc = "gather"
    /\ \E i, j \in 1..batch_size :
         /\ outcome[i].kind = "raise"
         /\ pc[j] = "update"

\* C3: a cycle that got a handle from create_container calls
\* cleanup_container exactly once, with that handle, before its result or its
\* error is delivered, wherever it fails after the creation; a cycle that got
\* no handle never calls it; so a batch in which every cycle got a handle has
\* made exactly batch_size cleanup calls when it returns.
C3_CleanupExactlyOnce ==
    /\ \A t \in Cycles :
         /\ Cardinality(CallsOf(t, "cleanup_container")) <= 1
         /\ HandlesOf(t) = {} => CallsOf(t, "cleanup_container") = {}
         /\ Delivered(t) =>
              \A h \in HandlesOf(t) : Cardinality(CleanupsOf(t, h)) = 1
    /\ (batch_pc = "returned" /\ \A i \in 1..batch_size : HandlesOf(i) # {}) =>
         Cardinality({<<i, k>> \in (1..batch_size) \X (1..Len(CycleOps)) :
                        k \in CallsOf(i, "cleanup_container")}) = batch_size

C3_Witness ==
    /\ batch_pc = "returned"
    /\ batch_size = MaxBatch
    /\ \A i \in 1..batch_size : HandlesOf(i) # {}
    /\ \E i, j \in 1..batch_size :
         /\ outcome[i] = Raised("save_run_info")
         /\ outcome[j].kind = "return"

\* C4: a failure of cleanup_container is not propagated: when a step between
\* sandbox creation and strategy update failed and cleanup fails too,
\* run_cycle reports the error of that step; when every step succeeded and
\* only cleanup fails, run_cycle returns the result.
C4_CleanupFailureNotPropagated ==
    \A t \in Cycles :
       (/\ pc[t] = "done"
        /\ CallsOf(t, "cleanup_container") # {}
        /\ calls[t][Len(calls[t])].ret[1] = "error") =>
          LET earlier == FailedCalls(t) \ {Len(calls[t])}
          IN IF earlier # {}
             THEN \E k \in earlier : outcome[t] = Raised(calls[t][k].ret[2])
             ELSE outcome[t].kind = "return"

Tracked == DOMAIN running_experiments
StatusOf(e) == running_experiments[e].status
ScheduleCall(e) ==
    api'.seq # api.seq /\ api'.op = "schedule_experiment" /\ api'.id = e
StopCall(e) ==
    api'.seq # api.seq /\ api'.op = "stop_experiment" /\ api'.id = e

DriverTransitions ==
    {<<"scheduled", "running">>, <<"stopping", "running">>,
     <<"running", "completed">>, <<"running", "failed">>,
     <<"stopping", "completed">>, <<"stopping", "failed">>}

C6_ScheduleStep ==
    \A e \in ExpIds :
       /\ (ScheduleCall(e) /\ e \in Tracked) =>
             /\ api'.raised
             /\ running_experiments' = running_experiments
             /\ created_tasks' = created_tasks
             /\ driver' = driver
             /\ pc' = pc
       /\ (ScheduleCall(e) /\ e \notin Tracked) =>
             /\ ~api'.raised
             /\ created_tasks'[e] = created_tasks[e] + 1

C6_AtMostOneTask == \A e \in ExpIds : created_tasks[e] <= 1

C6_ScheduleOnce == [] C6_AtMostOneTask /\ [][C6_ScheduleStep]_vars

C6_Witness ==
    /\ api.op = "schedule_experiment"
    /\ api.raised
    /\ api.id \in Tracked
    /\ StatusOf(api.id) = "completed"
    /\ created_tasks[api.id] = 1

\* C7: when the cycle of a scheduled experiment raises, at whatever step,
\* the driver sets the entry to failed and stores the error message in it;
\* no API call raises because of it, the entries of the other experiments
\* are unchanged, and schedule_experiment itself had returned with the entry
\* in status scheduled before the cycle started.
C7_DriverStoresFailure ==
    \A e \in ExpIds :
       /\ (outcome[e].kind = "none" /\ outcome'[e].kind = "raise") =>
             /\ StatusOf(e)' = "failed"
             /\ running_experiments'[e].error = <<outcome'[e].error>>
             /\ api' = api
             /\ Tracked' = Tracked
             /\ \A f \in Tracked \ {e} :
                   running_experiments'[f] = running_experiments[f]
       /\ (ScheduleCall(e) /\ ~api'.raised) =>
             /\ StatusOf(e)' = "scheduled"
             /\ pc'[e] = "idle"
             /\ calls'[e] = <<>>

C7_FailureBecomesStatus == [][C7_DriverStoresFailure]_vars

C7_Witness ==
    \E e, f \in Tracked :
       /\ e # f
       /\ StatusOf(e) = "failed"
       /\ running_experiments[e].error = <<"run_container">>
       /\ StatusOf(f) = "running"
       /\ pc[f] = "save"

\* C8: under fair scheduling every scheduled experiment eventually has status
\* completed with its result stored or status failed with its error stored,
\* and from then on get_experiment_status reports that same terminal status.
Terminal(e) ==
    /\ e \in Tracked
    /\ \/ StatusOf(e) = "completed" /\ running_experiments[e].results # <<>>
       \/ StatusOf(e) = "failed" /\ running_experiments[e].error # <<>>

C8_TerminalReachedAndKept ==
    /\ \A e \in ExpIds :
          (e \in Tracked /\ StatusOf(e) = "scheduled") ~> Terminal(e)
    /\ [][\A e \in ExpIds :
            Terminal(e) =>
               get_experiment_status(e)' =
                  Returned([running_experiments'[e] EXCEPT
                              !.status = StatusOf(e)])]_vars

\* C9: stop_experiment on an untracked id raises and changes nothing; on a
\* tracked id it sets that entry's status to stopping and changes nothing
\* else: not the entry's start_time, logs, result or error, not another
\* entry, and not the position, the pending outcome or the calls of any
\* cycle; a cycle whose calls all succeed still makes all eight of them.
C9_StopStep ==
    \A e \in ExpIds :
       StopCall(e) =>
          /\ api'.raised = (e \notin Tracked)
          /\ Tracked' = Tracked
          /\ \A f \in Tracked \ {e} :
                running_experiments'[f] = running_experiments[f]
          /\ e \in Tracked =>
                /\ StatusOf(e)' = "stopping"
                /\ running_experiments'[e].start_time =
                      running_experiments[e].start_time
                /\ running_experiments'[e].logs = running_experiments[e].logs
                /\ running_experiments'[e].results =
                      running_experiments[e].results
                /\ running_experiments'[e].error = running_experiments[e].error
          /\ UNCHANGED <<pc, caller, pending, outcome, calls, container_id,
                         final_results, driver, created_tasks, saved, history>>

C9_CycleRunsToItsEnd ==
    \A e \in Cycles :
       (pc[e] = "done" /\ FailedCalls(e) = {}) =>
          /\ [k \in DOMAIN calls[e] |-> calls[e][k].op] = CycleOps
          /\ outcome[e].kind = "return"

C9_StopIsAStatusFlag == [] C9_CycleRunsToItsEnd /\ [][C9_StopStep]_vars

C9_Witness ==
    /\ api.op = "stop_experiment"
    /\ ~api.raised
    /\ api.id \in Tracked
    /\ StatusOf(api.id) = "completed"
    /\ running_experiments[api.id].start_time # 0
    /\ Len(calls[api.id]) = Len(CycleOps)

\* C10: in sequential mode a cycle makes its first call only when the cycle
\* before it has finished, cleanup included, and when run_batch returns all
\* batch_size cycles have been run, in index order, whatever failed.
C10_SequentialInOrder ==
    (batch_pc # "idle" /\ ~parallel) =>
       /\ \A i \in 1..batch_size :
             (i > 1 /\ (pc[i] # "idle" \/ calls[i] # <<>>)) =>
                /\ pc[i - 1] = "done"
                /\ Delivered(i - 1)
                /\ HandlesOf(i - 1) # {} =>
                      CallsOf(i - 1, "cleanup_container") # {}
       /\ Len(results) = Cardinality({i \in 1..batch_size : pc[i] = "done"})
       /\ batch_pc = "returned" =>
             \A i \in 1..batch_size : pc[i] = "done" /\ calls[i] # <<>>

C10_Witness ==
    /\ ~parallel
    /\ batch_pc = "returned"
    /\ batch_size = MaxBatch
    /\ outcome[1] = Raised("update_with_results")
    /\ outcome[batch_size].kind = "return"

OpsOf(t) == [k \in DOMAIN calls[t] |-> calls[t][k].op]
IsPrefix(s, r) == Len(s) <= Len(r) /\ s = SubSeq(r, 1, Len(s))
\* the call a suspended cycle is waiting for, by position in CycleOps
Awaits == <<"suggest", "generate", "commit", "create", "run", "save",
            "update", "cleanup">>
LastOp(t) == calls[t][Len(calls[t])].op

\* C11: within one cycle the collaborator calls are made in the order
\* suggest_architecture, generate_code, commit_code, create_container,
\* run_container, save_run_info, update_with_results, cleanup_container, none
\* twice, each made only when the one before it has returned; save_run_info
\* comes before update_with_results and cleanup_container is the last call.
C11_StrictStepOrder ==
    \A t \in Cycles :
       LET n == Len(calls[t])
           cleaned == n > 0 /\ LastOp(t) = "cleanup_container"
           body == IF cleaned THEN SubSeq(OpsOf(t), 1, n - 1) ELSE OpsOf(t)
       IN /\ IsPrefix(body, SubSeq(CycleOps, 1, Len(CycleOps) - 1))
          /\ \A k \in 1..(Len(body) - 1) : calls[t][k].ret[1] # "error"
          /\ cleaned => (Len(body) >= 5 /\ pc[t] = "done")
          /\ \A k \in 1..(Len(Awaits) - 1) :
                pc[t] = Awaits[k] =>
                   (Len(body) = k - 1 /\ \A j \in 1..n : calls[t][j].ret[1] # "error")
          /\ pc[t] = "cleanup" => (~cleaned /\ n >= 5)
          /\ pc[t] = "idle" => n = 0
          /\ \A k \in CallsOf(t, "update_with_results") :
                k > 1 /\ calls[t][k - 1] = Call("save_run_info", <<>>, Ok)

C11_Witness ==
    \E t, u \in Cycles :
       /\ OpsOf(t) = CycleOps
       /\ outcome[t].kind = "return"
       /\ pc[u] = "save"

\* C12: when run_container reports a run that did not succeed, run_cycle
\* raises the run-failure error that carries the payload the sandbox reported,
\* the cycle calls neither save_run_info nor update_with_results, and it
\* calls cleanup_container once with its sandbox handle.
C12_RunFailureSkipsPersistence ==
    \A t \in Cycles : \A p \in Payloads :
       (\E k \in CallsOf(t, "run_container") :
           calls[t][k].ret = Error(RunFailed(p))) =>
          /\ CallsOf(t, "save_run_info") = {}
          /\ CallsOf(t, "update_with_results") = {}
          /\ Delivered(t) =>
                /\ outcome[t] = Raised(RunFailed(p))
                /\ \A h \in HandlesOf(t) : Cardinality(CleanupsOf(t, h)) = 1

\* C13: submit_results called with a results map that lacks architecture_id
\* or metrics raises the missing-field error at once: the call makes neither
\* a save_run_info nor an update_with_results call, and the map is neither
\* in the results store nor in the strategy history.
C13_MissingFieldBeforeSideEffects ==
    \A t \in Cycles :
       (caller[t] = "submit_results" /\ MissingField(final_results[t])) =>
          /\ pc[t] = "done"
          /\ outcome[t] = Raised(IF "architecture_id" \notin DOMAIN final_results[t]
                                 THEN "submit_results: missing required field 'architecture_id'"
                                 ELSE "submit_results: missing required field 'metrics'")
          /\ calls[t] = <<>>
          /\ \A k \in DOMAIN saved : saved[k] # final_results[t]
          /\ \A k \in DOMAIN history : history[k] # final_results[t]

C13_Witness ==
    \E t, u \in Cycles :
       /\ caller[t] = "submit_results"
       /\ "architecture_id" \notin DOMAIN final_results[t]
       /\ outcome[t].kind = "raise"
       /\ caller[u] = "submit_results"
       /\ outcome[u] = Returned(<<>>)
       /\ Len(saved) = 1
       /\ Len(history) = 1

\* C14: when suggest_architecture returns something that is not an
\* architecture vector, run_cycle raises the invalid-type error and that call
\* is the only one the cycle makes: no generate_code, no commit_code, no
\* create_container (so no cleanup_container), no save_run_info and no
\* update_with_results.
C14_InvalidSuggestionStopsCycle ==
    \A t \in Cycles :
       (/\ calls[t] # <<>>
        /\ calls[t][1].ret =
              Error("Strategy returned invalid architecture type")) =>
          /\ Len(calls[t]) = 1
          /\ pc[t] = "done"
          /\ outcome[t] = Raised("Strategy returned invalid architecture type")
          /\ HandlesOf(t) = {}

C14_Witness ==
    \E t, u \in Cycles :
       /\ outcome[t] = Raised("Strategy returned invalid architecture type")
       /\ OpsOf(t) = <<"suggest_architecture">>
       /\ outcome[u].kind = "return"
       /\ Len(saved) = 1
       /\ Len(history) = 1

CycleSuggests(t) ==
    /\ Len(calls'[t]) = Len(calls[t]) + 1
    /\ calls'[t][Len(calls'[t])].op = "suggest_architecture"
DirectCall(op) == api'.seq # api.seq /\ api'.op = op

\* C16: a RandomSearch with cap num_samples answers a suggest_architecture
\* call with a vector exactly when fewer than num_samples calls have
\* succeeded before, and raises SearchSpaceExhausted otherwise, whoever
\* calls and however the cycles of a batch interleave; the counter goes up by
\* one with every vector returned, is left unchanged by a failing call and by
\* every other step, and never exceeds the cap.
C16_SuggestStep ==
    LET open == search_strategy.current_sample < search_strategy.num_samples
        counted == search_strategy'.current_sample =
                      search_strategy.current_sample + 1
        kept == search_strategy' = search_strategy
    IN /\ \A t \in Cycles :
             CycleSuggests(t) =>
                IF open
                THEN calls'[t][Len(calls'[t])].ret = Ok /\ counted
                ELSE /\ calls'[t][Len(calls'[t])].ret =
                           Error("SearchSpaceExhausted")
                     /\ kept
       /\ DirectCall("suggest_architecture") =>
             IF open
             THEN ~api'.raised /\ Len(api'.value) = 1 /\ counted
             ELSE api'.error = "SearchSpaceExhausted" /\ kept
       /\ search_strategy'.current_sample >= search_strategy.current_sample
       /\ search_strategy'.num_samples = search_strategy.num_samples
       /\ (~DirectCall("suggest_architecture")
             /\ \A t \in Cycles : ~CycleSuggests(t)) => kept

C16_CounterWithinCap ==
    search_strategy.current_sample <= search_strategy.num_samples

C17_HistoryStep ==
    /\ IsPrefix(history, history')
    /\ DirectCall("update_with_results") =>
          /\ ~api'.raised
          /\ Len(history') = Len(history) + 1
          /\ history'[Len(history')].architecture = api'.args.architecture
          /\ history'[Len(history')].results = api'.args.results
    /\ (DirectCall("suggest_architecture")
          \/ DirectCall("get_best_architectures")) => history' = history

C17_AppendOnly == [][C17_HistoryStep]_vars

C17_Witness ==
    /\ Len(history) = 2
    /\ api.op = "get_best_architectures"
    /\ Len(api.value) = 2
    /\ api.value[1] = history[2].architecture
    /\ api.value[1] # history[1].architecture
    /\ search_strategy.class = "BayesianOptimization"

C19_UpdateStep ==
    DirectCall("update_with_results") =>
       IF "objective" \notin DOMAIN api'.args.results
       THEN api'.raised /\ history' = history
       ELSE ~api'.raised /\ Len(history') = Len(history) + 1

C19_UpdateRejectsMissingObjective == [][C19_UpdateStep]_vars

\* C20: on a history of n entries that all carry the metric,
\* get_best_architectures(metric, k) with k >= 0 returns the architectures of
\* min(k, n) distinct entries, in non-increasing order of the metric, and no
\* entry left out has a larger metric than an entry returned.
C20_BestArchitectures ==
    (/\ api.op = "get_best_architectures"
     /\ \A i \in DOMAIN history : api.args.metric \in DOMAIN history[i].results) =>
       LET metric == api.args.metric
           k == api.args.num_architectures
           n == Len(history)
           best == api.value
           key(i) == history[i].results[metric]
       IN /\ ~api.raised
          /\ Len(best) = IF k < n THEN k ELSE n
          /\ \E idx \in [1..Len(best) -> 1..n] :
                /\ \A i, j \in 1..Len(best) : i # j => idx[i] # idx[j]
                /\ \A i \in 1..Len(best) :
                      best[i] = history[idx[i]].architecture
                /\ \A i \in 1..(Len(best) - 1) : key(idx[i]) >= key(idx[i + 1])
                /\ \A i \in 1..Len(best) :
                      \A j \in (1..n) \ {idx[m] : m \in 1..Len(best)} :
                         key(idx[i]) >= key(j)

C20_Witness ==
    /\ api.op = "get_best_architectures"
    /\ api.args = [metric |-> "objective", num_architectures |-> 1]
    /\ Len(history) = 2
    /\ history[1].results = [objective |-> 1]
    /\ history[2].results = [objective |-> 2]
    /\ history[1].architecture # history[2].architecture
    /\ api.value = <<history[2].architecture>>

\* ---------------------------------------------------------------------------
\* C21: get_best_architectures never fails: it returns the empty list when the
\* history is empty and when no entry carries the requested metric, and it
\* returns a list (no error) when only some entries lack the metric.
C21_GetBestNeverFails ==
    api.op = "get_best_architectures" =>
       /\ ~api.raised
       /\ (\A i \in DOMAIN history :
              api.args.metric \notin DOMAIN history[i].results) =>
             api.value = <<>>

\* ---------------------------------------------------------------------------
\* C22: while the history of a BayesianOptimization strategy is shorter than
\* its dimensions, suggest_architecture returns a vector and leaves the
\* surrogate untouched (no fit, no predict); a call that reaches the surrogate
\* is made with a history of at least `dimensions` entries, fits it on the
\* whole history, and predicts only after that fit.
C22_SuggestStep ==
    (DirectCall("suggest_architecture")
        /\ search_strategy.class = "BayesianOptimization") =>
       LET gp == search_strategy'.gp
       IN IF Len(history) < search_strategy.dimensions
          THEN /\ ~api'.raised
               /\ Len(api'.value) = 1
               /\ api'.value[1] \in Vectors
               /\ gp = search_strategy.gp
          ELSE IF api'.error = "KeyError"
          THEN gp = search_strategy.gp
          ELSE /\ gp.calls # <<>>
               /\ gp.calls[1] = "fit"
               /\ \A i \in DOMAIN gp.calls : gp.calls[i] = "predict" => i > 1
               /\ Len(gp.X) = Len(history)
               /\ \A i \in DOMAIN history :
                     /\ gp.X[i] = history[i].architecture
                     /\ gp.y[i] = history[i].results.objective

C22_ColdStartSkipsSurrogate ==
    /\ [][C22_SuggestStep]_vars
    /\ [](search_strategy.class = "BayesianOptimization" =>
             (search_strategy.gp.calls # <<>> =>
                 Len(history) >= search_strategy.dimensions))

C22_Witness ==
    /\ search_strategy.class = "BayesianOptimization"
    /\ api.op = "suggest_architecture"
    /\ Len(history) = search_strategy.dimensions
    /\ search_strategy.gp.calls = <<"fit", "predict">>
    /\ Len(search_strategy.gp.X) = Len(history)
    /\ search_strategy.gp.y = <<1, 2>>

\* ---------------------------------------------------------------------------
\* C23: once the history of a BayesianOptimization strategy has reached its
\* dimensions (every entry carrying the objective), suggest_architecture
\* returns a vector, the result of one of the local optimisations and never an
\* unset value.
C23_SuggestReturnsAnOptimum ==
    (/\ api.op = "suggest_architecture"
     /\ search_strategy.class = "BayesianOptimization"
     /\ Len(history) >= search_strategy.dimensions
     /\ \A k \in DOMAIN history : "objective" \in DOMAIN history[k].results) =>
       /\ ~api.raised
       /\ Len(api.value) = 1
       /\ api.value[1] \in Vectors

\* ---------------------------------------------------------------------------
\* C24: a tracked experiment entry is never removed: over every step
\* (schedule_experiment, stop_experiment, the driver starting, completing or
\* failing) the set of tracked ids only grows, and get_experiment_status(id)
\* returns an entry for every id that was ever scheduled.
C24_TrackedStep == Tracked \subseteq Tracked'

C24_EntriesNeverRemoved ==
    /\ [][C24_TrackedStep]_vars
    /\ [](\A e \in ExpIds :
             created_tasks[e] > 0 =>
                /\ get_experiment_status(e).kind = "return"
                /\ get_experiment_status(e).value = running_experiments[e])

C24_Witness ==
    \E e \in ExpIds :
       /\ created_tasks[e] > 0
       /\ driver[e] = "finished"
       /\ api.op = "stop_experiment" /\ api.id = e /\ ~api.raised
       /\ get_experiment_status(e).kind = "return"
       /\ Tracked = ExpIds

\* ---------------------------------------------------------------------------
\* C25: for every specification that encode accepts (continuous values within
\* their bounds, categorical values among their choices), decode right after
\* encode returns every categorical value given exactly and every continuous
\* value given within its rounding tolerance: at most half a unit for a
\* parameter with integer bounds, the value itself otherwise.
C25_RoundTripStep ==
    (api.op = "encode" /\ ~api.raised /\ api'.op = "decode") =>
       LET given == api.args.arch_spec
           decoded == api'.value[1]
           inst == instances.self
       IN /\ DOMAIN decoded = ParamsOf(inst)
          /\ \A i \in DOMAIN inst.bounds :
                LET b == inst.bounds[i]
                IN b.param \in DOMAIN given =>
                      IF b.int
                      THEN /\ 2 * (decoded[b.param] - given[b.param]) <= Unit
                           /\ 2 * (given[b.param] - decoded[b.param]) <= Unit
                           /\ decoded[b.param] % Unit = 0
                      ELSE decoded[b.param] = given[b.param]
          /\ \A k \in DOMAIN inst.categorical_dims :
                LET c == inst.categorical_dims[k]
                IN c.param \in DOMAIN given => decoded[c.param] = given[c.param]

C25_DecodeInvertsEncode == [][C25_RoundTripStep]_vars

C25_Witness ==
    /\ api.op = "decode"
    /\ instances.self.bounds[1].int
    /\ instances.self.vector = <<1, 0, Unit>>
    /\ api.value[1]["num_layers"] = 2 * Unit
    /\ api.value[1]["norm_type"] = "rmsnorm"

\* ---------------------------------------------------------------------------
\* C26: for arbitrary parent vectors (blocks that are all zero or have several
\* non-zero elements included) and every way to cross them, a uniform mask or
\* a list of crossover points, both children of crossover have in every
\* categorical block exactly one element equal to 1 and all others 0.
ValidOneHot(inst, vec) ==
    \A k \in DOMAIN inst.categorical_dims :
       /\ Cardinality({j \in BlockSlots(inst, k) : vec[j] = Unit}) = 1
       /\ \A j \in BlockSlots(inst, k) : vec[j] \in {0, Unit}

C26_ChildrenAreOneHot ==
    (api.op = "crossover" /\ ~api.raised) =>
       /\ Len(api.value) = 2
       /\ \A c \in 1..2 :
             /\ api.value[c].categorical_dims = instances.self.categorical_dims
             /\ ValidOneHot(api.value[c], api.value[c].vector)

C26_Witness ==
    /\ api.op = "crossover" /\ ~api.raised
    /\ api.args.kind = "points"
    /\ Len(api.args.points) = 2
    /\ instances.self.vector = <<Unit, Threshold, Threshold>>
    /\ instances.other.vector = <<0, 0, 0>>
    /\ api.value[1].vector # api.value[2].vector

\* ---------------------------------------------------------------------------
\* C27: mutate(0.0) returns a vector equal to the original in every slot;
\* mutate(1.0) perturbs every continuous slot, the result lying within [0, 1]
\* (a slot stays as it was only where the clamp holds it at an edge), and
\* resamples every categorical block to a valid one-hot.
C27_MutateRates ==
    api.op = "mutate" =>
       LET original == instances.self.vector
           mutated == api.value[1]
           n == Len(instances.self.bounds)
       IN /\ ~api.raised
          /\ api.args.mutation_rate = 0 => mutated.vector = original
          /\ api.args.mutation_rate = Unit =>
                /\ \A i \in 1..n :
                      /\ 0 <= mutated.vector[i] /\ mutated.vector[i] <= Unit
                      /\ \/ mutated.vector[i] # original[i]
                         \/ original[i] = 0
                         \/ original[i] = Unit
                /\ ValidOneHot(mutated, mutated.vector)

C27_Witness ==
    /\ api.op = "mutate"
    /\ api.args.mutation_rate = Unit
    /\ instances.self.vector = <<Threshold, Unit, Unit>>
    /\ api.value[1].vector = <<Threshold - Unit \div 4, 0, Unit>>

\* ---------------------------------------------------------------------------
\* C28: decode does not fail on a categorical block: a block with exactly one
\* element above the threshold 0.9 decodes to the choice of that element, a
\* block with none or with several decodes to the first choice listed.
C28_DecodeBlocks ==
    api.op = "decode" =>
       /\ ~api.raised
       /\ \A k \in DOMAIN instances.self.categorical_dims :
             LET c == instances.self.categorical_dims[k]
                 strong == {j \in BlockSlots(instances.self, k) :
                               instances.self.vector[j] > Threshold}
             IN api.value[1][c.param] =
                   IF Cardinality(strong) = 1
                   THEN c.choices[(CHOOSE j \in strong : TRUE)
                                     - BlockStart(instances.self, k)]
                   ELSE c.choices[1]

C28_Witness ==
    /\ api.op = "decode"
    /\ instances.self.vector = <<0, Threshold, Unit>>
    /\ api.value[1]["norm_type"] = "rmsnorm"

\* ---------------------------------------------------------------------------
\* C29: encode fails with the out-of-bounds error whenever a continuous value
\* given lies strictly outside its inclusive bounds, and with the
\* invalid-choice error whenever a categorical value given is not among the
\* choices (the bounds are checked first, so a specification with both faults
\* fails with the out-of-bounds error); a specification without such a value
\* is accepted, values exactly on a bound included.
C29_EncodeErrors ==
    api.op = "encode" =>
       LET given == api.args.arch_spec
           inst == instances.self
           outside == {i \in DOMAIN inst.bounds :
                         /\ inst.bounds[i].param \in DOMAIN given
                         /\ \/ given[inst.bounds[i].param] < inst.bounds[i].min_val
                            \/ given[inst.bounds[i].param] > inst.bounds[i].max_val}
           invalid == {k \in DOMAIN inst.categorical_dims :
                         /\ inst.categorical_dims[k].param \in DOMAIN given
                         /\ given[inst.categorical_dims[k].param]
                               \notin Range(inst.categorical_dims[k].choices)}
       IN /\ outside # {} =>
                /\ api.raised
                /\ \E i \in outside :
                      api.error = inst.bounds[i].param \o " value is outside bounds"
          /\ (outside = {} /\ invalid # {}) =>
                /\ api.raised
                /\ \E k \in invalid :
                      api.error = "Invalid " \o inst.categorical_dims[k].param
                                     \o " value"
          /\ (outside = {} /\ invalid = {}) => ~api.raised

C29_Witness ==
    /\ api.op = "encode"
    /\ ~api.raised
    /\ DOMAIN api.args.arch_spec = {"num_layers", "norm_type"}
    /\ api.args.arch_spec["num_layers"] = instances.self.bounds[1].max_val
    /\ instances.self.vector = <<Unit, Unit, 0>>

\* ---------------------------------------------------------------------------
\* C30: crossover and distance fail with the dimension-mismatch error whenever
\* the two vectors differ in dimensions, in continuous bounds or in
\* categorical definitions, vectors of the same length with other bounds or
\* other choice lists included.
C30_MismatchRejected ==
    (/\ api.op \in {"crossover", "distance"}
     /\ \/ instances.self.dimensions # instances.other.dimensions
        \/ instances.self.bounds # instances.other.bounds
        \/ instances.self.categorical_dims # instances.other.categorical_dims) =>
       /\ api.raised
       /\ api.error \in
             {"Cannot crossover vectors with different dimensions.",
              "Cannot calculate distance between vectors with different dimensions."}

\* ---------------------------------------------------------------------------
\* C31: list_running_experiments returns exactly the ids of the experiments
\* whose status is running or scheduled; an experiment that has become
\* completed or failed is not listed.
C31_ListsOnlyRunning ==
    /\ {e \in Tracked : StatusOf(e) \in {"running", "scheduled"}}
          \subseteq list_running_experiments
    /\ \A e \in list_running_experiments :
          StatusOf(e) \notin {"completed", "failed"}

\* ---------------------------------------------------------------------------
\* C32: for every input vector (a block that is all zero or has several
\* non-zero elements included) and every mutation rate, every categorical
\* block of the vector mutate returns is a valid one-hot.
C32_MutatedIsOneHot ==
    api.op = "mutate" =>
       /\ ~api.raised
       /\ ValidOneHot(api.value[1], api.value[1].vector)

\* ---------------------------------------------------------------------------
\* C33: with crossover points p1 < ... < pk the children exchange the
\* parents' slots in alternating segments delimited by the points, the last
\* segment from pk to the end included: a slot comes from the other parent
\* exactly when an odd number of points lies at or before it (with one point
\* p, child1 has the slots [0, p) of the receiver and [p, end) of the other
\* parent); the one-hot repair follows.
C33_AlternatingSegments ==
    (/\ api.op = "crossover" /\ ~api.raised
     /\ api.args.kind = "points"
     /\ \A i \in 1..(Len(api.args.points) - 1) :
           api.args.points[i] < api.args.points[i + 1]) =>
       LET self == instances.self
           other == instances.other
           passed(j) == Cardinality({i \in DOMAIN api.args.points :
                                        api.args.points[i] <= j - 1})
           child1 == [j \in DOMAIN self.vector |->
                        IF passed(j) % 2 = 1 THEN other.vector[j]
                        ELSE self.vector[j]]
           child2 == [j \in DOMAIN self.vector |->
                        IF passed(j) % 2 = 1 THEN self.vector[j]
                        ELSE other.vector[j]]
       IN /\ api.value[1].vector = FixCategorical(self, child1)
          /\ api.value[2].vector = FixCategorical(self, child2)

\* ---- C34: a generate_code call that has started has made at most
\* max_retries attempts; when it returns,
\* the code it returns is the code of the last attempt made, that code passes
\* validate_code, and no earlier attempt produced code that passes; and once
\* max_retries attempts have all ended in an error or in invalid code, the call
\* has failed
Passed(response) == response.error = "" /\ validate_code(response.code)
C34_RetriesUntilValid ==
    LET made == codegen.attempts
        n == Len(made)
    IN  codegen.pc # "idle" =>
           /\ n <= codegen.max_retries
           /\ codegen.out.kind = "return" =>
                 /\ n >= 1
                 /\ Passed(made[n])
                 /\ codegen.out.value = made[n].code
                 /\ \A i \in 1..(n - 1) : ~Passed(made[i])
           /\ (\E i \in 1..n : Passed(made[i])) => codegen.out.kind = "return"
           /\ (n = codegen.max_retries /\ \A i \in 1..n : ~Passed(made[i])) =>
                 codegen.out.kind = "raise"
\* a call that returns the code of its last allowed attempt after an error and
\* an invalid code
C34_Witness ==
    /\ codegen.out.kind = "return"
    /\ Len(codegen.attempts) = codegen.max_retries
    /\ Len(codegen.attempts) >= 3
    /\ codegen.attempts[1].error # ""
    /\ ~validate_code(codegen.attempts[2].code)
\* a call that fails after max_retries attempts, the last of them invalid code
C34_WitnessExhausted ==
    /\ codegen.out = Raised(ExhaustedError)
    /\ Len(codegen.attempts) = codegen.max_retries
    /\ Len(codegen.attempts) >= 2
    /\ codegen.attempts[Len(codegen.attempts)].error = ""

\* ---- C35: a stopping status set before the driver starts or while the cycle
\* is in flight does not persist: the step in which the driver starts leaves
\* the status running, the step in which the cycle ends leaves it completed or
\* failed, and once the driver has finished the status is completed or failed
\* unless a later stop_experiment call has set it to stopping
C35_DriverStep ==
    \A e \in Tracked :
       /\ (driver[e] = "pending" /\ driver'[e] = "running") =>
             StatusOf(e)' = "running"
       /\ (driver[e] = "running" /\ driver'[e] = "finished") =>
             StatusOf(e)' \in {"completed", "failed"}
       /\ (driver[e] = "finished" /\ StatusOf(e)' # StatusOf(e)) =>
             StopCall(e) /\ StatusOf(e)' = "stopping"
C35_StoppingOverwritten ==
    /\ [][C35_DriverStep]_vars
    /\ [](\A e \in Tracked :
             driver[e] = "finished" =>
                StatusOf(e) \in {"completed", "failed", "stopping"})
\* the last API call was a stop_experiment of an experiment whose driver has
\* since finished: the stopping it set has been overwritten
C35_Witness ==
    \E e \in Tracked :
       /\ api.op = "stop_experiment" /\ api.id = e /\ ~api.raised
       /\ driver[e] = "finished"
       /\ StatusOf(e) \in {"completed", "failed"}

\* ---- C36: in every state of the tracked-experiment map, an entry with status
\* completed has a stored result, an entry with status failed has a stored
\* error, no entry has both a result and an error, and start_time is unset
\* exactly for the entries whose driver has not yet started
HasResult(e) == running_experiments[e].results # <<>>
HasError(e) == running_experiments[e].error # <<>>
C36_EntryShape ==
    \A e \in Tracked :
       /\ StatusOf(e) = "completed" => HasResult(e)
       /\ StatusOf(e) = "failed" => HasError(e)
       /\ ~(HasResult(e) /\ HasError(e))
       /\ running_experiments[e].start_time = NewEntry.start_time
             <=> driver[e] = "pending"
\* one experiment completed and another failed: both have a start_time, one
\* holds a result and no error, the other an error and no result
C36_Witness ==
    \E e1, e2 \in Tracked :
       /\ StatusOf(e1) = "completed" /\ HasResult(e1) /\ ~HasError(e1)
       /\ StatusOf(e2) = "failed" /\ HasError(e2) /\ ~HasResult(e2)
       /\ running_experiments[e1].start_time \in Times
       /\ running_experiments[e2].start_time \in Times

\* ---- C37: whenever run_cycle has returned a result, the cycle has called
\* save_run_info exactly once and update_with_results exactly once, in that
\* order and both with the result it returns, and cleanup_container has
\* already been called on the cycle's sandbox
Only(t, op) == CHOOSE k \in CallsOf(t, op) : TRUE
Logged(t, op) ==
    /\ Len(calls'[t]) = Len(calls[t]) + 1
    /\ calls'[t][Len(calls'[t])] = Call(op, <<>>, Ok)
C37_SubmitStep ==
    \A t \in Cycles :
       /\ Logged(t, "save_run_info") =>
             /\ saved' = Append(saved, final_results[t])
             /\ final_results'[t] = final_results[t]
       /\ Logged(t, "update_with_results") =>
             /\ history' = Append(history, final_results[t])
             /\ pending'[t] = Returned(final_results[t])
       /\ (outcome[t].kind # "return" /\ outcome'[t].kind = "return") =>
             outcome'[t] = pending[t]
C37_Returned ==
    \A t \in Cycles :
       outcome[t].kind = "return" =>
          /\ Cardinality(CallsOf(t, "save_run_info")) = 1
          /\ Cardinality(CallsOf(t, "update_with_results")) = 1
          /\ Cardinality(CallsOf(t, "cleanup_container")) = 1
          /\ Only(t, "save_run_info") < Only(t, "update_with_results")
          /\ Only(t, "update_with_results") < Only(t, "cleanup_container")
          /\ calls[t][Only(t, "cleanup_container")].arg \in HandlesOf(t)
          /\ \E k \in DOMAIN saved : saved[k] = outcome[t].value
          /\ \E k \in DOMAIN history : history[k] = outcome[t].value
C37_ReturnAfterSubmitAndCleanup ==
    [] C37_Returned /\ [][C37_SubmitStep]_vars
\* a batch of which one cycle has returned its result and another has failed
\* in save_run_info
C37_Witness ==
    \E t, u \in Cycles :
       /\ outcome[t].kind = "return"
       /\ outcome[t].value \in {saved[k] : k \in DOMAIN saved}
       /\ outcome[u] = Raised("save_run_info")

\* ---- C38: the budget of a RandomSearch counts suggestions, not completed
\* evaluations: in every state reached through orchestrator cycles the history
\* is no longer than current_sample, current_sample is at most num_samples and
\* at least the number of cycles that were handed a vector, whether they
\* failed later or not, and no step ever lowers current_sample
SuggestedCycles == {t \in Cycles : calls[t] # <<>> /\ calls[t][1].ret = Ok}
C38_Budget ==
    /\ Len(history) <= search_strategy.current_sample
    /\ search_strategy.current_sample <= search_strategy.num_samples
    /\ Cardinality(SuggestedCycles) <= search_strategy.current_sample
C38_NoRefund ==
    search_strategy'.current_sample >= search_strategy.current_sample
C39_OperandStep ==
    (api' # api /\ api'.op \in {"mutate", "crossover"}) =>
       /\ instances'.self = instances.self
       /\ instances'.other = instances.other
C39_OperandsUnchanged == [][C39_OperandStep]_vars

\* a crossover at given points both of whose children differ from both
\* parents, the parents holding what a caller gave them
C39_Witness ==
    /\ api.op = "crossover" /\ ~api.raised
    /\ api.args.kind = "points"
    /\ \A c \in 1..2 :
          /\ api.value[c].vector # instances.self.vector
          /\ api.value[c].vector # instances.other.vector
    /\ instances.self.vector = <<Unit, Threshold, Threshold>>
    /\ instances.other.vector \in OtherVectors(instances.other.dimensions)

====
